---- MODULE Spec2Model ----
(***************************************************************************)
(* A model of datapipelines.DataPipeline (src/datapipelines/pipelines.py): *)
(* the type graph, the transform resolver, the handler factory, the        *)
(* Source/SinkHandlers and the get / get_many / put / put_many entry       *)
(* points with their handler caches.                                       *)
(***************************************************************************)
EXTENDS Integers, Sequences, FiniteSets, TLC

VARIABLES
    elements,       \* DataPipeline.__init__ argument: the element sequence
    transformers,   \* DataPipeline.__init__ argument, in iteration order
    sources,        \* self._sources: list of (source, set of eligible sinks)
    sinks,          \* self._sinks
    type_graph,     \* self._type_graph
    annotations,    \* the sources and sinks attributes of the type graph's nodes
    get_types,      \* self._get_types
    put_types,      \* self._put_types
    op,             \* the last top-level call: [name, type, streaming, query]
    outcome,        \* how it ended: "ok" or the name of the exception raised
    result,         \* the values it returned (a get returns one)
    trace,          \* the origin / converter / destination calls it made, in order
    context,        \* the PipelineContext it created (None before the loop)
    heap,           \* the query maps alive in the call, by reference; 1 is the caller's
    gen,            \* the generator returned by a streaming get_many
    threads,        \* concurrent callers of get, each with its position and locals
    builds,         \* the handler lists concurrent callers built, and the one each
                    \* cache entry holds
    root,           \* QueryValidator._root: the declarations, in order
    current,        \* QueryValidator._current: the selected _KeyNode, or None
    parent          \* QueryValidator._parent: the node holding the selected one

config == <<elements, transformers, sources, sinks, type_graph, annotations>>
caches == <<get_types, put_types>>
callvars == <<op, outcome, result, trace, context, heap, gen>>
concvars == <<threads, builds>>
validator == <<root, current, parent>>
vars == <<elements, transformers, sources, sinks, type_graph, annotations, get_types, put_types,
          op, outcome, result, trace, context, heap, gen, threads, builds,
          root, current, parent>>

---------------------------------------------------------------------------
(* Bounds of the model *)

MaxElements == 3      \* longest element sequence given to the constructor
MaxItems == 2         \* longest sequence an origin's get_many returns
MaxKeyNodes == 4      \* most keys declared on a validator without type constraints
MaxTypedKeyNodes == 2 \* most keys declared on a validator with type constraints
NumThreads == 2       \* callers running get concurrently

---------------------------------------------------------------------------
(* Types and capability declarations *)

\* The type tokens requested and declared.
Types == {"int", "float", "str"}

\* common.TYPE_WILDCARD: typing.Any
TYPE_WILDCARD == "Any"

\* A declared type set is either the wildcard object itself or a set of types.
Wild == [wild |-> TRUE, types |-> {}]
Decl(S) == [wild |-> FALSE, types |-> S]

\* The pipeline elements the model draws from: the classes of
\* tests/test_pipelines.py, a destination of "int", a destination of "str", and
\* a destination without dispatch registrations (its declared set is the
\* wildcard).
ElementNames == {"IntSource", "FloatStore", "IntSink", "StrSink", "AnySink"}

\* isinstance(element, DataSource)
isDataSource(e) == e \in {"IntSource", "FloatStore", "FloatStrSource", "AnySource"}

\* isinstance(element, DataSink)
isDataSink(e) == e \in {"FloatStore", "IntSink", "StrSink", "AnySink"}

\* DataSource.provides
provides(e) ==
    CASE e = "IntSource" -> Decl({"int"})
      [] e = "FloatStore" -> Decl({"float"})
      [] e = "FloatStrSource" -> Decl({"float", "str"})
      [] e = "AnySource" -> Wild
      [] OTHER -> Decl({})

\* DataSink.accepts
accepts(e) ==
    CASE e = "FloatStore" -> Decl({"float"})
      [] e = "IntSink" -> Decl({"int"})
      [] e = "StrSink" -> Decl({"str"})
      [] e = "AnySink" -> Wild
      [] OTHER -> Decl({})

\* The converters the model draws from: those of tests/test_pipelines.py, a
\* second converter of int to float that costs 3, and a second converter of int
\* to str that costs 1.
TransformerNames ==
    {"IntFloatTransformer", "FloatIntTransformer", "StringTransformer",
     "SlowIntFloatTransformer", "IntStrTransformer"}

\* DataTransformer.transforms, as the set of (from, to) pairs
transforms(t) ==
    CASE t = "IntFloatTransformer" -> {<<"int", "float">>}
      [] t = "FloatIntTransformer" -> {<<"float", "int">>}
      [] t = "SlowIntFloatTransformer" -> {<<"int", "float">>}
      [] t = "IntStrTransformer" -> {<<"int", "str">>}
      [] t = "StringTransformer" -> {<<"int", "str">>, <<"float", "str">>,
                                     <<"str", "int">>, <<"str", "float">>}
      [] OTHER -> {}

\* DataTransformer.cost
cost(t) == IF t \in {"FloatIntTransformer", "SlowIntFloatTransformer"} THEN 3 ELSE 1

\* The transformer collections given to the constructor, in iteration order.
TransformerChoices ==
    { <<"IntFloatTransformer">>,
      <<"IntFloatTransformer", "FloatIntTransformer", "StringTransformer">> }

\* The non-empty sequences over S of length at most n
RECURSIVE SeqsUpTo(_, _)
SeqsUpTo(S, n) ==
    IF n = 0 THEN {}
    ELSE LET shorter == SeqsUpTo(S, n - 1)
         IN  {<<x>> : x \in S} \cup {Append(s, x) : s \in shorter, x \in S}

NoRepeat(s) == \A i, j \in 1..Len(s) : i # j => s[i] # s[j]

\* The element sequences given to the constructor: non-empty (line 264), each
\* element listed once.
ElementChoices == {s \in SeqsUpTo(ElementNames, MaxElements) : NoRepeat(s)}

---------------------------------------------------------------------------
(* Type graph *)

\* _MAX_TRANSFORM_COST
MAX_TRANSFORM_COST == 10000000

\* AddTransformer replacing the kept converter on equal cost too (`<=` at
\* line 72).
AddTransformer_ties_last(g, t) ==
    LET pairs == transforms(t)
        old == DOMAIN g.edges
        edge(p) ==
            IF p \in pairs
            THEN [cost |-> cost(t),
                  transformer |->
                      IF p \in old
                      THEN (IF cost(t) <= cost(g.edges[p].transformer)
                            THEN t ELSE g.edges[p].transformer)
                      ELSE t]
            ELSE g.edges[p]
    IN  [nodes |-> g.nodes \cup {p[1] : p \in pairs} \cup {p[2] : p \in pairs},
         edges |-> [p \in old \cup pairs |-> edge(p)]]

\* One converter added to the graph: lines 61-77. The edge keeps the cheaper
\* converter; its cost attribute is the cost of the converter being added.
AddTransformer(g, t) ==
    LET pairs == transforms(t)
        old == DOMAIN g.edges
        edge(p) ==
            IF p \in pairs
            THEN [cost |-> cost(t),
                  transformer |->
                      IF p \in old
                      THEN (IF cost(t) < cost(g.edges[p].transformer)
                            THEN t ELSE g.edges[p].transformer)
                      ELSE t]
            ELSE g.edges[p]
    IN  [nodes |-> g.nodes \cup {p[1] : p \in pairs} \cup {p[2] : p \in pairs},
         edges |-> [p \in old \cup pairs |-> edge(p)]]

RECURSIVE AddTransformers(_, _, _)
AddTransformers(g, ts, i) ==
    IF i > Len(ts) THEN g ELSE AddTransformers(AddTransformer(g, ts[i]), ts, i + 1)

\* _build_type_graph: nodes for the types of non-wildcard origins and
\* destinations, then the converters' edges.
build_type_graph(srcs, snks, ts) ==
    LET declared == UNION {provides(s).types : s \in {x \in srcs : ~provides(x).wild}}
                    \cup UNION {accepts(s).types : s \in {x \in snks : ~accepts(x).wild}}
    IN  AddTransformers([nodes |-> declared, edges |-> <<>>], ts, 1)

---------------------------------------------------------------------------
(* Transform resolver *)

\* The simple paths of the graph from a to b that avoid the nodes in seen.
RECURSIVE PathsFrom(_, _, _, _)
PathsFrom(g, a, b, seen) ==
    IF a = b THEN {<<a>>}
    ELSE UNION { {<<a>> \o p : p \in PathsFrom(g, n, b, seen \cup {a})} :
                 n \in {m \in g.nodes \ (seen \cup {a}) : <<a, m>> \in DOMAIN g.edges} }

\* The sum of the edges' cost attributes along a path: the weight dijkstra_path
\* minimises (weight="cost").
RECURSIVE PathWeight(_, _)
PathWeight(g, p) ==
    IF Len(p) < 2 THEN 0 ELSE g.edges[<<p[1], p[2]>>].cost + PathWeight(g, Tail(p))

\* networkx.dijkstra_path as line 293 uses it: the path of one node when source
\* and target are the same type, in the graph or not (test_pipeline_transform);
\* no path when the source is not a node (KeyError) or the target is not reached
\* (NetworkXNoPath); otherwise a path of least weight.
\* dijkstra_paths failing for a source that is not a node even when source and
\* target are the same type.
dijkstra_paths_strict(g, source, target) ==
    IF source \notin g.nodes \/ target \notin g.nodes
    THEN {[found |-> FALSE, path |-> <<>>]}
    ELSE IF source = target THEN {[found |-> TRUE, path |-> <<source>>]}
    ELSE LET ps == PathsFrom(g, source, target, {})
         IN  IF ps = {} THEN {[found |-> FALSE, path |-> <<>>]}
             ELSE {[found |-> TRUE, path |-> p] :
                      p \in {q \in ps : \A o \in ps : PathWeight(g, q) <= PathWeight(g, o)}}

\* dijkstra_paths gives every answer the search may give: which of several
\* paths of least weight it returns is the library's choice.
dijkstra_paths(g, source, target) ==
    IF source = target THEN {[found |-> TRUE, path |-> <<source>>]}
    ELSE IF source \notin g.nodes \/ target \notin g.nodes
    THEN {[found |-> FALSE, path |-> <<>>]}
    ELSE LET ps == PathsFrom(g, source, target, {})
         IN  IF ps = {} THEN {[found |-> FALSE, path |-> <<>>]}
             ELSE {[found |-> TRUE, path |-> p] :
                      p \in {q \in ps : \A o \in ps : PathWeight(g, q) <= PathWeight(g, o)}}

dijkstra_path(g, source, target) == CHOOSE r \in dijkstra_paths(g, source, target) : TRUE

\* _pairwise and the loop of lines 299-304: the chain of (transformer, target)
\* steps along a path.
RECURSIVE ChainOf(_, _)
ChainOf(g, p) ==
    IF Len(p) < 2 THEN <<>>
    ELSE <<[transformer |-> g.edges[<<p[1], p[2]>>].transformer, target |-> p[2]]>>
         \o ChainOf(g, Tail(p))

\* cost += transformer.cost over the chain
RECURSIVE ChainCost(_)
ChainCost(chain) ==
    IF chain = <<>> THEN 0 ELSE cost(chain[1].transformer) + ChainCost(Tail(chain))

\* _identity: the empty chain
identity == <<>>

\* _transform answering a failed search with the identity instead of raising.
TransformAlong_lenient(g, r) ==
    IF ~r.found THEN [ok |-> TRUE, chain |-> identity, cost |-> 0]
    ELSE [ok |-> TRUE, chain |-> ChainOf(g, r.path), cost |-> ChainCost(ChainOf(g, r.path))]

\* Lines 299-310: the chain and its cost along the path r that line 293 found.
TransformAlong(g, r) ==
    IF ~r.found THEN [ok |-> FALSE, chain |-> identity, cost |-> 0]
    ELSE [ok |-> TRUE, chain |-> ChainOf(g, r.path), cost |-> ChainCost(ChainOf(g, r.path))]

\* DataPipeline._transform: ok = FALSE stands for NoConversionError.
transform(g, source_type, target_type) ==
    TransformAlong(g, dijkstra_path(g, source_type, target_type))

\* The loop of _best_transform_from and _best_transform_to over the candidate
\* types, tr giving the conversion found for each: the cheapest among those
\* cheaper than _MAX_TRANSFORM_COST, NoConversionError (ok = FALSE) if none.
Cheapest(tr) ==
    LET cands == {t \in DOMAIN tr : tr[t].ok /\ tr[t].cost < MAX_TRANSFORM_COST}
    IN  IF cands = {} THEN [ok |-> FALSE, chain |-> identity, type |-> "", cost |-> 0]
        ELSE LET best == CHOOSE t \in cands : \A u \in cands : tr[t].cost <= tr[u].cost
             IN  [ok |-> TRUE, chain |-> tr[best].chain, type |-> best,
                  cost |-> tr[best].cost]

\* DataPipeline._best_transform_from: the cheapest conversion of source_type to
\* one of target_types.
best_transform_from(g, source_type, target_types) ==
    Cheapest([t \in target_types |-> transform(g, source_type, t)])

\* DataPipeline._best_transform_to: the cheapest conversion to target_type from
\* one of source_types.
best_transform_to(g, target_type, source_types) ==
    Cheapest([t \in source_types |-> transform(g, t, target_type)])

---------------------------------------------------------------------------
(* Handler factory *)

\* _SinkHandler.__init__
SinkHandler(sink, store_type, tr) ==
    [sink |-> sink, store_type |-> store_type, transform |-> tr]

\* _SourceHandler.__init__: the sinks mapped to False go before the conversion,
\* those mapped to True after it.
SourceHandler(source, source_type, tr, before, after) ==
    [source |-> source, source_type |-> source_type, transform |-> tr,
     before_transform |-> before, after_transform |-> after]

\* `TYPE_WILDCARD in declared or type in declared` (lines 373, 387): a TypeError
\* when the declared set is the wildcard object itself, which supports no `in`.
DirectMatch(declared, type) ==
    IF declared.wild THEN "TypeError"
    ELSE IF TYPE_WILDCARD \in declared.types \/ type \in declared.types THEN "True"
    ELSE "False"

\* The handler _create_sink_handlers builds for one sink: none when the type
\* cannot be converted to a type the sink accepts.
SinkHandlerFor(g, type, sink) ==
    IF DirectMatch(accepts(sink), type) = "True"
    THEN {SinkHandler(sink, type, identity)}
    ELSE {SinkHandler(sink, b.type, b.chain) :
              b \in {x \in {best_transform_from(g, type, accepts(sink).types)} : x.ok}}

\* DataPipeline._create_sink_handlers
create_sink_handlers(g, type, targets) ==
    IF \E sink \in targets : DirectMatch(accepts(sink), type) = "TypeError"
    THEN [exc |-> "TypeError", handlers |-> {}]
    ELSE [exc |-> "none",
          handlers |-> UNION {SinkHandlerFor(g, type, sink) : sink \in targets}]

\* Placement giving a sink reached from both types a handler on each side of
\* the conversion.
Placement_both(sink, b, a) ==
    [before |-> IF b.ok THEN {SinkHandler(sink, b.type, b.chain)} ELSE {},
     after |-> IF a.ok THEN {SinkHandler(sink, a.type, a.chain)} ELSE {}]

\* Placement taking the handler from the origin's type whenever there is one,
\* whatever the one from the requested type costs.
Placement_before_first(sink, b, a) ==
    IF b.ok
    THEN [before |-> {SinkHandler(sink, b.type, b.chain)}, after |-> {}]
    ELSE IF a.ok
    THEN [before |-> {}, after |-> {SinkHandler(sink, a.type, a.chain)}]
    ELSE [before |-> {}, after |-> {}]

\* Lines 359-367: b is the conversion found from the origin's type, a the one
\* from the requested type. The handler from the origin's type when strictly
\* cheaper, else the one from the requested type.
Placement(sink, b, a) ==
    IF b.ok /\ a.ok
    THEN (IF b.cost < a.cost
          THEN [before |-> {SinkHandler(sink, b.type, b.chain)}, after |-> {}]
          ELSE [before |-> {}, after |-> {SinkHandler(sink, a.type, a.chain)}])
    ELSE IF b.ok
    THEN [before |-> {SinkHandler(sink, b.type, b.chain)}, after |-> {}]
    ELSE IF a.ok
    THEN [before |-> {}, after |-> {SinkHandler(sink, a.type, a.chain)}]
    ELSE [before |-> {}, after |-> {}]

\* The placement _create_sink_handlers_simultaneously gives one sink
\* (lines 349-367).
SimultaneousFor(g, before, after, sink) ==
    Placement(sink, best_transform_from(g, before, accepts(sink).types),
                    best_transform_from(g, after, accepts(sink).types))

\* The sets _create_sink_handlers_simultaneously returns, from the placements
\* of the sinks.
Placed(ps) ==
    [exc |-> "none", before |-> UNION {p.before : p \in ps},
     after |-> UNION {p.after : p \in ps}]

\* DataPipeline._create_sink_handlers_simultaneously: iterating the accepted
\* types of a wildcard sink is a TypeError (line 316 via 351).
create_sink_handlers_simultaneously(g, before, tr, after, targets) ==
    IF \E sink \in targets : accepts(sink).wild
    THEN [exc |-> "TypeError", before |-> {}, after |-> {}]
    ELSE Placed({SimultaneousFor(g, before, after, sink) : sink \in targets})

\* Lines 389 and 398-399: the handler of one origin put before the handlers of
\* the origins after it, sh being the sink handlers built for it.
WithHandler(sh, source, source_type, tr, rest) ==
    IF sh.exc # "none" THEN [exc |-> sh.exc, handlers |-> <<>>]
    ELSE IF rest.exc # "none" THEN rest
    ELSE [exc |-> "none",
          handlers |-> <<SourceHandler(source, source_type, tr, sh.before, sh.after)>>
                       \o rest.handlers]

\* Line 388: every sink handler of an origin that provides the type itself is
\* placed before the (identity) conversion.
AllBefore(sh) == [exc |-> sh.exc, before |-> sh.handlers, after |-> {}]

\* Lines 391-399: an origin that does not provide the type itself, bt being the
\* conversion found from its types; the origin is skipped when there is none.
ViaTransform(g, type, source, targets, bt, rest) ==
    IF ~bt.ok THEN rest
    ELSE WithHandler(create_sink_handlers_simultaneously(g, bt.type, bt.chain, type,
                                                         targets),
                     source, bt.type, bt.chain, rest)

\* DataPipeline._create_source_handlers, from the i-th entry of self._sources on.
RECURSIVE create_source_handlers(_, _, _, _)
create_source_handlers(g, type, srcs, i) ==
    IF i > Len(srcs) THEN [exc |-> "none", handlers |-> <<>>]
    ELSE IF DirectMatch(provides(srcs[i].source), type) = "TypeError"
    THEN [exc |-> "TypeError", handlers |-> <<>>]
    ELSE IF DirectMatch(provides(srcs[i].source), type) = "True"
    THEN WithHandler(AllBefore(create_sink_handlers(g, type, srcs[i].targets)),
                     srcs[i].source, type, identity,
                     create_source_handlers(g, type, srcs, i + 1))
    ELSE ViaTransform(g, type, srcs[i].source, srcs[i].targets,
                      best_transform_to(g, type, provides(srcs[i].source).types),
                      create_source_handlers(g, type, srcs, i + 1))

\* Lines 405-408 and 413-416: NoConversionError when nothing was built.
RaiseIfEmpty(r, empty) ==
    IF r.exc # "none" THEN r
    ELSE IF r.handlers = empty THEN [exc |-> "NoConversionError", handlers |-> empty]
    ELSE r

\* DataPipeline._get_handlers
get_handlers(g, srcs, type) == RaiseIfEmpty(create_source_handlers(g, type, srcs, 1), <<>>)

\* DataPipeline._put_handlers
put_handlers(g, snks, type) == RaiseIfEmpty(create_sink_handlers(g, type, snks), {})

---------------------------------------------------------------------------
(* Values, queries, contexts and the record of calls *)

\* PipelineContext.Keys.PIPELINE
PIPELINE == "pipeline"

\* A context is a dict with an identity; None is the default of every context
\* parameter.
NoneContext == [id |-> 0, keys |-> {}]

\* DataPipeline._new_context: a fresh PipelineContext holding the pipeline.
new_context == [id |-> 1, keys |-> {<<PIPELINE, "self">>}]

\* A query map is a set of (key, value) pairs; the caller's queries:
Queries == { {<<"value", 5>>}, {<<"value", 5>>, <<"count", 2>>} }

\* What an origin that mutates the query it is given does to it.
Mutated(q) == q \cup {<<"touched", 1>>}

\* deepcopy left out: the origin is given the caller's map itself.
deepcopy_alias(h, ref) == [heap |-> h, ref |-> ref]

\* copy.deepcopy of the map at ref: a new map with the same content.
deepcopy(h, ref) == [heap |-> Append(h, h[ref]), ref |-> Len(h) + 1]

\* The value an origin returns for a type, and the n values its get_many returns.
Fetched(type, n) == [type |-> type, item |-> n, via |-> <<>>]
FetchedMany(type, n) == [k \in 1..n |-> Fetched(type, k)]

\* One call on a collaborator. ev: "get", "get_many", "put", "put_many",
\* "transform"; who: the collaborator; type: the type argument; vals: the values
\* passed (returned, for an origin); ctx: the context argument; q: the query
\* argument, by reference and content; res: how an origin's call ended.
Event(ev, who, type, vals, ctx, q, res) ==
    [ev |-> ev, who |-> who, type |-> type, vals |-> vals, ctx |-> ctx, q |-> q,
     res |-> res]

NoQuery == [ref |-> 0, content |-> {}]

\* pipelines._transform: the calls transformer.transform(target_type, data,
\* context) of a chain applied to v, and the value they give.
RECURSIVE TransformCalls(_, _, _)
TransformCalls(chain, v, ctx) ==
    IF chain = <<>> THEN <<>>
    ELSE <<Event("transform", chain[1].transformer, chain[1].target, <<v>>, ctx,
                 NoQuery, "ok")>>
         \o TransformCalls(Tail(chain),
                           [type |-> chain[1].target, item |-> v.item,
                            via |-> Append(v.via, chain[1].transformer)], ctx)

RECURSIVE Transformed(_, _)
Transformed(chain, v) ==
    IF chain = <<>> THEN v
    ELSE Transformed(Tail(chain), [type |-> chain[1].target, item |-> v.item,
                                   via |-> Append(v.via, chain[1].transformer)])

RECURSIVE Concat(_)
Concat(ss) == IF ss = <<>> THEN <<>> ELSE ss[1] \o Concat(Tail(ss))

\* The handlers of a set in the order the iteration visits them: the order of
\* their sinks in ord, an enumeration of the pipeline's sinks.
RECURSIVE InOrder(_, _)
InOrder(handlers, ord) ==
    IF ord = <<>> THEN <<>>
    ELSE LET hs == {h \in handlers : h.sink = ord[1]}
         IN  (IF hs = {} THEN <<>> ELSE <<CHOOSE h \in hs : TRUE>>)
             \o InOrder(handlers, Tail(ord))

\* The enumerations of a finite set
RECURSIVE Enumerations(_)
Enumerations(S) ==
    IF S = {} THEN {<<>>}
    ELSE UNION { {<<x>> \o e : e \in Enumerations(S \ {x})} : x \in S }

\* The loop body of lines 34-41 (and 51-58) for the declaring elements at the
\* positions I of the iteration order ord: `graph[type]` is the node's adjacency,
\* which has no "sources" (or "sinks") entry, so each iteration starts from an
\* empty set and add_node replaces the attribute with the set of the element
\* alone; the attribute is left as the last iteration wrote it.
LastAdded(ord, I) ==
    IF I = {} THEN {} ELSE {ord[CHOOSE i \in I : \A j \in I : j <= i]}

\* The node attributes lines 26-59 leave, the origins iterated in the order
\* ordS and the destinations in the order ordK; an attribute never written is
\* the empty set here.
node_annotations(ordS, ordK) ==
    [t \in Types |->
        [sources |-> LastAdded(ordS, {i \in DOMAIN ordS : t \in provides(ordS[i]).types}),
         sinks |-> LastAdded(ordK, {i \in DOMAIN ordK : t \in accepts(ordK[i]).types})]]

\* _build_type_graph, the node attributes: srcs and snks are sets, iterated in
\* an order of the interpreter's choosing; wildcard elements are skipped
\* (lines 28-30 and 45-47).
build_annotations(srcs, snks) ==
    {node_annotations(ordS, ordK) :
        ordS \in Enumerations({x \in srcs : ~provides(x).wild}),
        ordK \in Enumerations({x \in snks : ~accepts(x).wild})}

---------------------------------------------------------------------------
(* SinkHandler and SourceHandler *)

\* _SinkHandler.put: convert, then the sink's put.
SinkHandler_put(h, item, ctx) ==
    TransformCalls(h.transform, item, ctx)
    \o <<Event("put", h.sink, h.store_type, <<Transformed(h.transform, item)>>, ctx,
               NoQuery, "ok")>>

\* _SinkHandler.put_many: the sink's put_many is given a generator; the
\* conversions run while the sink consumes it.
SinkHandler_put_many(h, items, ctx) ==
    <<Event("put_many", h.sink, h.store_type,
            [k \in 1..Len(items) |-> Transformed(h.transform, items[k])], ctx,
            NoQuery, "ok")>>
    \o Concat([k \in 1..Len(items) |-> TransformCalls(h.transform, items[k], ctx)])

\* `for sink in handlers: sink.put(item, context)`
PutAll(handlers, ord, item, ctx) ==
    LET hs == InOrder(handlers, ord)
    IN  Concat([k \in 1..Len(hs) |-> SinkHandler_put(hs[k], item, ctx)])

\* `for sink in handlers: sink.put_many(items, context)`
PutManyAll(handlers, ord, items, ctx) ==
    LET hs == InOrder(handlers, ord)
    IN  Concat([k \in 1..Len(hs) |-> SinkHandler_put_many(hs[k], items, ctx)])

\* The origin's part of a handler call: the query is copied, the origin is
\* called with the copy and may mutate it; res is how the origin answers.
OriginCall(ev, h, hp, query, ctx, res, mutates, vals) ==
    LET c == deepcopy(hp, query)
    IN  [call |-> Event(ev, h.source, h.source_type, IF res = "ok" THEN vals ELSE <<>>,
                        ctx, [ref |-> c.ref, content |-> c.heap[c.ref]], res),
         heap |-> IF mutates THEN [c.heap EXCEPT ![c.ref] = Mutated(@)] ELSE c.heap]

\* _SourceHandler.get with the origin's NotFoundError caught inside the handler
\* and the sinks written before it is raised again.
SourceHandler_get_writes_on_miss(h, hp, query, ctx, res, mutates, ord) ==
    LET o == OriginCall("get", h, hp, query, ctx, res, mutates,
                        <<Fetched(h.source_type, 1)>>)
        raw == Fetched(h.source_type, 1)
        converted == Transformed(h.transform, raw)
    IN  [exc |-> IF res = "ok" THEN "none" ELSE res,
         result |-> IF res = "ok" THEN <<converted>> ELSE <<>>,
         heap |-> o.heap,
         trace |-> <<o.call>>
                   \o PutAll(h.before_transform, ord, raw, ctx)
                   \o TransformCalls(h.transform, raw, ctx)
                   \o PutAll(h.after_transform, ord, converted, ctx)]

\* _SourceHandler.get with the loop over the "after" sinks moved before the
\* conversion.
SourceHandler_get_after_first(h, hp, query, ctx, res, mutates, ord) ==
    LET o == OriginCall("get", h, hp, query, ctx, res, mutates,
                        <<Fetched(h.source_type, 1)>>)
        raw == Fetched(h.source_type, 1)
        converted == Transformed(h.transform, raw)
    IN  IF res # "ok"
        THEN [exc |-> res, result |-> <<>>, trace |-> <<o.call>>, heap |-> o.heap]
        ELSE [exc |-> "none", result |-> <<converted>>, heap |-> o.heap,
              trace |-> <<o.call>>
                        \o PutAll(h.before_transform, ord, raw, ctx)
                        \o PutAll(h.after_transform, ord, converted, ctx)
                        \o TransformCalls(h.transform, raw, ctx)]

\* _SourceHandler.get
SourceHandler_get(h, hp, query, ctx, res, mutates, ord) ==
    LET o == OriginCall("get", h, hp, query, ctx, res, mutates,
                        <<Fetched(h.source_type, 1)>>)
        raw == Fetched(h.source_type, 1)
        converted == Transformed(h.transform, raw)
    IN  IF res # "ok"
        THEN [exc |-> res, result |-> <<>>, trace |-> <<o.call>>, heap |-> o.heap]
        ELSE [exc |-> "none", result |-> <<converted>>, heap |-> o.heap,
              trace |-> <<o.call>>
                        \o PutAll(h.before_transform, ord, raw, ctx)
                        \o TransformCalls(h.transform, raw, ctx)
                        \o PutAll(h.after_transform, ord, converted, ctx)]

\* _SourceHandler._get_many_generator: the generator object, not yet started.
SourceHandler_get_many_generator(h, upstream, ctx) ==
    [live |-> TRUE, handler |-> <<h>>, upstream |-> upstream, context |-> ctx,
     yielded |-> 0]

NoGenerator ==
    [live |-> FALSE, handler |-> <<>>, upstream |-> <<>>, context |-> NoneContext,
     yielded |-> 0]

\* An iteration of _get_many_generator that, having handled its item, already
\* sends the next upstream item to the "before" sinks.
GeneratorStep_ahead(g, ord) ==
    LET h == g.handler[1]
        raw == Head(g.upstream)
        converted == Transformed(h.transform, raw)
    IN  [item |-> converted,
         trace |-> PutAll(h.before_transform, ord, raw, g.context)
                   \o TransformCalls(h.transform, raw, g.context)
                   \o PutAll(h.after_transform, ord, converted, g.context)
                   \o (IF Len(g.upstream) > 1
                       THEN PutAll(h.before_transform, ord, g.upstream[2], g.context)
                       ELSE <<>>)]

\* One iteration of the loop of _get_many_generator, for the item at the head of
\* the upstream sequence.
GeneratorStep(g, ord) ==
    LET h == g.handler[1]
        raw == Head(g.upstream)
        converted == Transformed(h.transform, raw)
    IN  [item |-> converted,
         trace |-> PutAll(h.before_transform, ord, raw, g.context)
                   \o TransformCalls(h.transform, raw, g.context)
                   \o PutAll(h.after_transform, ord, converted, g.context)]

\* _SourceHandler.get_many doing the bulk write to the "before" sinks in the
\* streaming case too, before it returns the generator.
SourceHandler_get_many_eager(h, hp, query, ctx, streaming, res, mutates, ord, n) ==
    LET raw == FetchedMany(h.source_type, n)
        o == OriginCall("get_many", h, hp, query, ctx, res, mutates, raw)
        converted == [k \in 1..n |-> Transformed(h.transform, raw[k])]
    IN  IF res # "ok"
        THEN [exc |-> res, result |-> <<>>, trace |-> <<o.call>>, heap |-> o.heap,
              gen |-> NoGenerator]
        ELSE IF ~streaming
        THEN [exc |-> "none", result |-> converted, heap |-> o.heap, gen |-> NoGenerator,
              trace |-> <<o.call>>
                        \o PutManyAll(h.before_transform, ord, raw, ctx)
                        \o Concat([k \in 1..n |-> TransformCalls(h.transform, raw[k], ctx)])
                        \o PutManyAll(h.after_transform, ord, converted, ctx)]
        ELSE [exc |-> "none", result |-> <<>>, heap |-> o.heap,
              trace |-> <<o.call>> \o PutManyAll(h.before_transform, ord, raw, ctx),
              gen |-> SourceHandler_get_many_generator(h, raw, NoneContext)]

\* _SourceHandler.get_many writing the materialized values to the sinks one by
\* one instead of in bulk.
SourceHandler_get_many_itemwise(h, hp, query, ctx, streaming, res, mutates, ord, n) ==
    LET raw == FetchedMany(h.source_type, n)
        o == OriginCall("get_many", h, hp, query, ctx, res, mutates, raw)
        converted == [k \in 1..n |-> Transformed(h.transform, raw[k])]
    IN  IF res # "ok"
        THEN [exc |-> res, result |-> <<>>, trace |-> <<o.call>>, heap |-> o.heap,
              gen |-> NoGenerator]
        ELSE IF ~streaming
        THEN [exc |-> "none", result |-> converted, heap |-> o.heap, gen |-> NoGenerator,
              trace |-> <<o.call>>
                        \o Concat([k \in 1..n |-> PutAll(h.before_transform, ord, raw[k], ctx)])
                        \o Concat([k \in 1..n |-> TransformCalls(h.transform, raw[k], ctx)])
                        \o Concat([k \in 1..n |->
                                      PutAll(h.after_transform, ord, converted[k], ctx)])]
        ELSE [exc |-> "none", result |-> <<>>, heap |-> o.heap, trace |-> <<o.call>>,
              gen |-> SourceHandler_get_many_generator(h, raw, NoneContext)]

\* _SourceHandler.get_many, n being the number of values the origin returns.
SourceHandler_get_many(h, hp, query, ctx, streaming, res, mutates, ord, n) ==
    LET raw == FetchedMany(h.source_type, n)
        o == OriginCall("get_many", h, hp, query, ctx, res, mutates, raw)
        converted == [k \in 1..n |-> Transformed(h.transform, raw[k])]
    IN  IF res # "ok"
        THEN [exc |-> res, result |-> <<>>, trace |-> <<o.call>>, heap |-> o.heap,
              gen |-> NoGenerator]
        ELSE IF ~streaming
        THEN [exc |-> "none", result |-> converted, heap |-> o.heap, gen |-> NoGenerator,
              trace |-> <<o.call>>
                        \o PutManyAll(h.before_transform, ord, raw, ctx)
                        \o Concat([k \in 1..n |-> TransformCalls(h.transform, raw[k], ctx)])
                        \o PutManyAll(h.after_transform, ord, converted, ctx)]
        ELSE [exc |-> "none", result |-> <<>>, heap |-> o.heap, trace |-> <<o.call>>,
              gen |-> SourceHandler_get_many_generator(h, raw, NoneContext)]

---------------------------------------------------------------------------
(* DataPipeline *)

\* SinksSnapshot without the copy (`targets.append((element, sinks))`): every
\* origin shares the one set, which ends up holding every sink.
SinksSnapshot_shared(els, i) == {els[j] : j \in {k \in 1..Len(els) : isDataSink(els[k])}}

\* The snapshot taken after the element at position i was added to the sinks.
SinksSnapshot_inclusive(els, i) == {els[j] : j \in {k \in 1..i : isDataSink(els[k])}}

\* `set(sinks)` at line 276: the sinks among the elements before position i.
SinksSnapshot(els, i) == {els[j] : j \in {k \in 1..(i - 1) : isDataSink(els[k])}}

\* The loop of DataPipeline.__init__ over elements[1..i]: self._sources.
RECURSIVE InitSources(_, _)
InitSources(els, i) ==
    IF i = 0 THEN <<>>
    ELSE InitSources(els, i - 1)
         \o (IF isDataSource(els[i])
             THEN <<[source |-> els[i], targets |-> SinksSnapshot(els, i)]>>
             ELSE <<>>)

\* The loop of DataPipeline.__init__: self._sinks.
InitSinks(els) == {els[i] : i \in {k \in 1..Len(els) : isDataSink(els[k])}}

\* The states of a handler-cache entry: no key, None, a list of SourceHandlers, a
\* set of SinkHandlers.
Unresolved == [state |-> "unresolved", list |-> <<>>, set |-> {}]
NoneSlot == [state |-> "None", list |-> <<>>, set |-> {}]
ListSlot(l) == [state |-> "list", list |-> l, set |-> {}]
SetSlot(x) == [state |-> "set", list |-> <<>>, set |-> x]

\* What an origin may answer: a value, NotFoundError, or another exception.
Answers == {"ok", "NotFoundError", "UnsupportedError"}

Raised(exc, cache, ctx, hp) ==
    [exc |-> exc, result |-> <<>>, trace |-> <<>>, context |-> ctx, heap |-> hp,
     gen |-> NoGenerator, get_types |-> cache]

\* Lines 444-448 (and 486-490, 518-522, 543-547): what was built is stored in
\* the get cache, None after NoConversionError, slot otherwise. A TypeError of
\* the build leaves the cache as it was.
Stored(cache, type, exc, slot) ==
    IF exc = "TypeError"
    THEN [exc |-> "TypeError", handlers |-> Unresolved, get_types |-> cache]
    ELSE IF exc = "NoConversionError"
    THEN [exc |-> "none", handlers |-> NoneSlot,
          get_types |-> [cache EXCEPT ![type] = NoneSlot]]
    ELSE [exc |-> "none", handlers |-> slot, get_types |-> [cache EXCEPT ![type] = slot]]

StoredList(cache, type, r) == Stored(cache, type, r.exc, ListSlot(r.handlers))
StoredSet(cache, type, r) == Stored(cache, type, r.exc, SetSlot(r.handlers))

\* Lines 440-448 and 482-490: the handlers for a type, from the cache or built
\* and stored.
ResolveGet(g, srcs, cache, type) ==
    IF cache[type].state # "unresolved"
    THEN [exc |-> "none", handlers |-> cache[type], get_types |-> cache]
    ELSE StoredList(cache, type, get_handlers(g, srcs, type))

\* TryGet with `except Exception` in place of `except NotFoundError`: every
\* exception of a handler falls through to the next handler.
RECURSIVE TryGet_except_all(_, _, _, _, _, _, _, _)
TryGet_except_all(handlers, i, hp, query, ctx, answers, mutates, ord) ==
    IF i > Len(handlers)
    THEN [exc |-> "NotFoundError", result |-> <<>>, trace |-> <<>>, heap |-> hp]
    ELSE LET r == SourceHandler_get(handlers[i], hp, query, ctx,
                                    answers[handlers[i].source], mutates, ord)
         IN  IF r.exc # "none"
             THEN LET rest == TryGet_except_all(handlers, i + 1, r.heap, query, ctx,
                                                answers, mutates, ord)
                  IN  [rest EXCEPT !.trace = r.trace \o @]
             ELSE r

\* Lines 457-463: the handlers tried in list order from the i-th on.
RECURSIVE TryGet(_, _, _, _, _, _, _, _)
TryGet(handlers, i, hp, query, ctx, answers, mutates, ord) ==
    IF i > Len(handlers)
    THEN [exc |-> "NotFoundError", result |-> <<>>, trace |-> <<>>, heap |-> hp]
    ELSE LET r == SourceHandler_get(handlers[i], hp, query, ctx,
                                    answers[handlers[i].source], mutates, ord)
         IN  IF r.exc = "NotFoundError"
             THEN LET rest == TryGet(handlers, i + 1, r.heap, query, ctx, answers,
                                     mutates, ord)
                  IN  [rest EXCEPT !.trace = r.trace \o @]
             ELSE r

\* Lines 499-505
RECURSIVE TryGetMany(_, _, _, _, _, _, _, _, _, _)
TryGetMany(handlers, i, hp, query, ctx, streaming, answers, mutates, ord, n) ==
    IF i > Len(handlers)
    THEN [exc |-> "NotFoundError", result |-> <<>>, trace |-> <<>>, heap |-> hp,
          gen |-> NoGenerator]
    ELSE LET r == SourceHandler_get_many(handlers[i], hp, query, ctx, streaming,
                                         answers[handlers[i].source], mutates, ord, n)
         IN  IF r.exc = "NotFoundError"
             THEN LET rest == TryGetMany(handlers, i + 1, r.heap, query, ctx, streaming,
                                         answers, mutates, ord, n)
                  IN  [rest EXCEPT !.trace = r.trace \o @]
             ELSE r

\* DataPipeline.get from line 450 on, rs being what lines 440-448 resolved. A
\* cache entry holding SinkHandlers has no `get`: the loop's first call raises
\* AttributeError.
Pipeline_get(rs, hp, query, answers, mutates, ord) ==
    LET ctx == new_context
    IN  IF rs.exc # "none" THEN Raised(rs.exc, rs.get_types, NoneContext, hp)
        ELSE IF rs.handlers.state = "None"
        THEN Raised("NoConversionError", rs.get_types, NoneContext, hp)
        ELSE IF rs.handlers.state = "set"
        THEN Raised("AttributeError", rs.get_types, ctx, hp)
        ELSE LET r == TryGet(rs.handlers.list, 1, hp, query, ctx, answers, mutates, ord)
             IN  [exc |-> r.exc, result |-> r.result, trace |-> r.trace, context |-> ctx,
                  heap |-> r.heap, gen |-> NoGenerator, get_types |-> rs.get_types]

\* DataPipeline.get_many from line 492 on
Pipeline_get_many(rs, hp, query, streaming, answers, mutates, ord, n) ==
    LET ctx == new_context
    IN  IF rs.exc # "none" THEN Raised(rs.exc, rs.get_types, NoneContext, hp)
        ELSE IF rs.handlers.state = "None"
        THEN Raised("NoConversionError", rs.get_types, NoneContext, hp)
        ELSE IF rs.handlers.state = "set"
        THEN Raised("AttributeError", rs.get_types, ctx, hp)
        ELSE LET r == TryGetMany(rs.handlers.list, 1, hp, query, ctx, streaming, answers,
                                 mutates, ord, n)
             IN  [exc |-> r.exc, result |-> r.result, trace |-> r.trace, context |-> ctx,
                  heap |-> r.heap, gen |-> r.gen, get_types |-> rs.get_types]

\* Lines 514-522 and 539-547: the SinkHandlers for a type, from self._put_types
\* or built; what was built is stored in self._get_types.
ResolvePut(g, snks, gcache, pcache, type) ==
    IF pcache[type].state # "unresolved"
    THEN [exc |-> "none", handlers |-> pcache[type], get_types |-> gcache]
    ELSE StoredSet(gcache, type, put_handlers(g, snks, type))

\* DataPipeline.put raising on a type without handlers, as get does.
Pipeline_put_raises(rs, item, ord) ==
    LET ctx == new_context
    IN  IF rs.exc # "none" THEN Raised(rs.exc, rs.get_types, NoneContext, <<>>)
        ELSE IF rs.handlers.state = "None"
        THEN Raised("NoConversionError", rs.get_types, NoneContext, <<>>)
        ELSE [exc |-> "none", result |-> <<>>, context |-> ctx, heap |-> <<>>,
              gen |-> NoGenerator, get_types |-> rs.get_types,
              trace |-> PutAll(rs.handlers.set, ord, item, ctx)]

\* DataPipeline.put from line 524 on, rs being what lines 514-522 resolved
Pipeline_put(rs, item, ord) ==
    LET ctx == new_context
    IN  IF rs.exc # "none" THEN Raised(rs.exc, rs.get_types, NoneContext, <<>>)
        ELSE [exc |-> "none", result |-> <<>>, context |-> ctx, heap |-> <<>>,
              gen |-> NoGenerator, get_types |-> rs.get_types,
              trace |-> IF rs.handlers.state = "None" THEN <<>>
                        ELSE PutAll(rs.handlers.set, ord, item, ctx)]

\* DataPipeline.put_many from line 549 on
Pipeline_put_many(rs, items, ord) ==
    LET ctx == new_context
    IN  IF rs.exc # "none" THEN Raised(rs.exc, rs.get_types, NoneContext, <<>>)
        ELSE [exc |-> "none", result |-> <<>>, context |-> ctx, heap |-> <<>>,
              gen |-> NoGenerator, get_types |-> rs.get_types,
              trace |-> IF rs.handlers.state = "None" THEN <<>>
                        ELSE PutManyAll(rs.handlers.set, ord, items, ctx)]

---------------------------------------------------------------------------
(* The state machine: one pipeline and its callers *)

\* QueryValidator.__init__: an empty root, no key selected.  A reference to a
\* node is the kind of the node and its place under the root; None refers to
\* no node.
None == [node |-> "None", at |-> <<>>]

QueryValidator_init ==
    /\ root = <<>>
    /\ current = None
    /\ parent = None

NoCall == [name |-> "none", type |-> "", streaming |-> FALSE, query |-> {}]

\* No handler list has been built; a list is known by the number of its build.
NoBuilds == [count |-> [t \in Types |-> 0], cached |-> [t \in Types |-> 0], last |-> 0]

Init ==
    /\ elements \in ElementChoices
    /\ transformers \in TransformerChoices
    /\ sources = InitSources(elements, Len(elements))
    /\ sinks = InitSinks(elements)
    /\ type_graph = build_type_graph({elements[i] : i \in {k \in 1..Len(elements) :
                                                           isDataSource(elements[k])}},
                                     InitSinks(elements), transformers)
    /\ annotations \in build_annotations({elements[i] : i \in {k \in 1..Len(elements) :
                                                              isDataSource(elements[k])}},
                                          InitSinks(elements))
    /\ get_types = [t \in Types |-> Unresolved]
    /\ put_types = [t \in Types |-> Unresolved]
    /\ op = NoCall
    /\ outcome = "none"
    /\ result = <<>>
    /\ trace = <<>>
    /\ context = NoneContext
    /\ heap = <<>>
    /\ gen = NoGenerator
    /\ threads = <<>>
    /\ builds = NoBuilds
    /\ QueryValidator_init

\* The call returns or raises: its outcome is the caller's to see.
Returned(name, type, streaming, query, r) ==
    /\ op' = [name |-> name, type |-> type, streaming |-> streaming, query |-> query]
    /\ outcome' = IF r.exc = "none" THEN "ok" ELSE r.exc
    /\ result' = r.result
    /\ trace' = r.trace
    /\ context' = r.context
    /\ heap' = r.heap
    /\ gen' = r.gen
    /\ get_types' = r.get_types
    /\ UNCHANGED <<config, validator, put_types, concvars>>

\* The origins of a list of SourceHandlers
HandlerSources(handlers) == {handlers[i].source : i \in 1..Len(handlers)}

\* The sinks of the SinkHandlers of a list of SourceHandlers
HandlerSinks(handlers) ==
    UNION { {h.sink : h \in handlers[i].before_transform \cup handlers[i].after_transform} :
            i \in 1..Len(handlers) }

\* The answers of the origins of a handler list that differ in what the loop
\* over the list sees: an origin after the first one that does not answer
\* NotFoundError is never called.
AnswersFor(handlers) ==
    {a \in [HandlerSources(handlers) -> Answers] :
        \A i \in 1..Len(handlers) :
            (\E j \in 1..(i - 1) : a[handlers[j].source] # "NotFoundError")
                => a[handlers[i].source] = "ok"}

\* The caller is between two calls.
Idle == op.name = "none"

\* The call of get from line 450 on, rs being what lines 440-448 resolved: the
\* origins answer and may mutate the query they are given, the iteration over
\* a set of SinkHandlers takes some order.
GetFrom(type, query, rs) ==
    \E answers \in AnswersFor(rs.handlers.list), mutates \in BOOLEAN,
       ord \in Enumerations(HandlerSinks(rs.handlers.list)) :
        Returned("get", type, FALSE, query,
                 Pipeline_get(rs, <<query>>, 1, answers, mutates, ord))

\* pipeline.get(type, query)
Get ==
    /\ Idle
    /\ \E type \in Types, query \in Queries :
           GetFrom(type, query, ResolveGet(type_graph, sources, get_types, type))

\* The call of get_many from line 492 on; the origin that answers returns n
\* values.
GetManyFrom(type, query, streaming, rs) ==
    \E answers \in AnswersFor(rs.handlers.list), mutates \in BOOLEAN,
       ord \in Enumerations(HandlerSinks(rs.handlers.list)), n \in 0..MaxItems :
        Returned("get_many", type, streaming, query,
                 Pipeline_get_many(rs, <<query>>, 1, streaming, answers, mutates, ord, n))

\* pipeline.get_many(type, query, streaming)
GetMany ==
    /\ Idle
    /\ \E type \in Types, query \in Queries, streaming \in BOOLEAN :
           GetManyFrom(type, query, streaming,
                       ResolveGet(type_graph, sources, get_types, type))

\* The call of put from line 524 on, rs being what lines 514-522 resolved
PutFrom(type, rs) ==
    \E ord \in Enumerations({h.sink : h \in rs.handlers.set}) :
        Returned("put", type, FALSE, {}, Pipeline_put(rs, Fetched(type, 1), ord))

\* pipeline.put(type, item)
Put ==
    /\ Idle
    /\ \E type \in Types :
           PutFrom(type, ResolvePut(type_graph, sinks, get_types, put_types, type))

\* The call of put_many from line 549 on
PutManyFrom(type, n, rs) ==
    \E ord \in Enumerations({h.sink : h \in rs.handlers.set}) :
        Returned("put_many", type, FALSE, {},
                 Pipeline_put_many(rs, FetchedMany(type, n), ord))

\* pipeline.put_many(type, items)
PutMany ==
    /\ Idle
    /\ \E type \in Types, n \in 0..MaxItems :
           PutManyFrom(type, n, ResolvePut(type_graph, sinks, get_types, put_types, type))

\* The caller is done with the outcome of its call (and with the generator, if
\* one was returned) and is ready for the next call.
Forget ==
    /\ ~Idle
    /\ op' = NoCall
    /\ outcome' = "none"
    /\ result' = <<>>
    /\ trace' = <<>>
    /\ context' = NoneContext
    /\ heap' = <<>>
    /\ gen' = NoGenerator
    /\ UNCHANGED <<config, validator, caches, concvars>>

\* The consumer of a streaming get_many takes the next item of the generator.
GeneratorNext ==
    /\ gen.live
    /\ \E ord \in Enumerations(sinks) :
        IF gen.upstream = <<>>
        THEN /\ gen' = [gen EXCEPT !.live = FALSE]
             /\ UNCHANGED <<result, trace>>
        ELSE LET step == GeneratorStep(gen, ord)
             IN  /\ gen' = [gen EXCEPT !.upstream = Tail(@), !.yielded = @ + 1]
                 /\ result' = Append(result, step.item)
                 /\ trace' = trace \o step.trace
    /\ UNCHANGED <<config, validator, caches, op, outcome, context, heap, concvars>>

Next == Get \/ GetMany \/ Put \/ PutMany \/ GeneratorNext \/ Forget

Spec == Init /\ [][Next]_vars

---------------------------------------------------------------------------
(* Concurrent callers of get: the statements of lines 440-463, one step each *)

\* A caller about to run pipeline.get(type, query)
Caller(type) ==
    [pc |-> "lookup", type |-> type, handlers |-> Unresolved, list |-> 0,
     outcome |-> "none"]

InitConcurrent ==
    /\ elements \in ElementChoices
    /\ transformers \in TransformerChoices
    /\ sources = InitSources(elements, Len(elements))
    /\ sinks = InitSinks(elements)
    /\ type_graph = build_type_graph({elements[i] : i \in {k \in 1..Len(elements) :
                                                           isDataSource(elements[k])}},
                                     InitSinks(elements), transformers)
    /\ annotations \in build_annotations({elements[i] : i \in {k \in 1..Len(elements) :
                                                              isDataSource(elements[k])}},
                                          InitSinks(elements))
    /\ get_types = [t \in Types |-> Unresolved]
    /\ put_types = [t \in Types |-> Unresolved]
    /\ op = NoCall
    /\ outcome = "none"
    /\ result = <<>>
    /\ trace = <<>>
    /\ context = NoneContext
    /\ heap = <<>>
    /\ gen = NoGenerator
    /\ threads \in [1..NumThreads -> {Caller(t) : t \in Types}]
    /\ builds = NoBuilds
    /\ QueryValidator_init

\* Line 441: handlers = self._get_types[type], or KeyError
ThreadLookup(i) ==
    /\ threads[i].pc = "lookup"
    /\ LET type == threads[i].type
       IN  threads' = [threads EXCEPT ![i] =
               IF get_types[type].state = "unresolved"
               THEN [@ EXCEPT !.pc = "build"]
               ELSE [@ EXCEPT !.pc = "check", !.handlers = get_types[type],
                              !.list = builds.cached[type]]]
    /\ UNCHANGED <<config, validator, caches, callvars, builds>>

\* The caller holds the handlers r it built, a list known by a new number.
Built(i, type, r) ==
    IF r.exc = "TypeError"
    THEN /\ threads' = [threads EXCEPT ![i].pc = "done", ![i].outcome = "TypeError"]
         /\ UNCHANGED builds
    ELSE /\ threads' = [threads EXCEPT
                ![i].pc = "store",
                ![i].handlers = IF r.exc = "NoConversionError" THEN NoneSlot
                                ELSE ListSlot(r.handlers),
                ![i].list = builds.last + 1]
         /\ builds' = [builds EXCEPT !.count[type] = @ + 1, !.last = @ + 1]

\* Lines 443-447: handlers = self._get_handlers(type), None on NoConversionError
ThreadBuild(i) ==
    /\ threads[i].pc = "build"
    /\ Built(i, threads[i].type, get_handlers(type_graph, sources, threads[i].type))
    /\ UNCHANGED <<config, validator, caches, callvars>>

\* Line 448: self._get_types[type] = handlers
ThreadStore(i) ==
    /\ threads[i].pc = "store"
    /\ get_types' = [get_types EXCEPT ![threads[i].type] = threads[i].handlers]
    /\ builds' = [builds EXCEPT !.cached[threads[i].type] = threads[i].list]
    /\ threads' = [threads EXCEPT ![i].pc = "check"]
    /\ UNCHANGED <<config, validator, put_types, callvars>>

\* The caller's call has returned or raised.
Served(i, r) ==
    threads' = [threads EXCEPT ![i].pc = "done",
                               ![i].outcome = IF r.exc = "none" THEN "ok" ELSE r.exc]

\* Lines 450-463: the caller is served from the handlers it holds.
ThreadServe(i) ==
    /\ threads[i].pc = "check"
    /\ \E query \in Queries, answers \in AnswersFor(threads[i].handlers.list),
          ord \in Enumerations(HandlerSinks(threads[i].handlers.list)) :
           Served(i, Pipeline_get([exc |-> "none", handlers |-> threads[i].handlers,
                                   get_types |-> get_types],
                                  <<query>>, 1, answers, FALSE, ord))
    /\ UNCHANGED <<config, validator, caches, callvars, builds>>

NextConcurrent ==
    \E i \in 1..NumThreads :
        ThreadLookup(i) \/ ThreadBuild(i) \/ ThreadStore(i) \/ ThreadServe(i)

SpecConcurrent == InitConcurrent /\ [][NextConcurrent]_vars

---------------------------------------------------------------------------
(* The transform resolver on its own: DataPipeline._transform applied to the
   type graph of a pipeline built from any collection of converters *)

\* The types resolve is asked about: "bool" is in no declaration.
ResolveTypes == Types \cup {"bool"}

\* The converter collections in every iteration order
TransformerOrders ==
    {<<>>} \cup {s \in SeqsUpTo(TransformerNames, Cardinality(TransformerNames)) :
                    NoRepeat(s)}

InitResolve ==
    /\ elements \in {<<e>> : e \in ElementNames}
    /\ transformers \in TransformerOrders
    /\ sources = InitSources(elements, Len(elements))
    /\ sinks = InitSinks(elements)
    /\ type_graph = build_type_graph({elements[i] : i \in {k \in 1..Len(elements) :
                                                           isDataSource(elements[k])}},
                                     InitSinks(elements), transformers)
    /\ annotations \in build_annotations({elements[i] : i \in {k \in 1..Len(elements) :
                                                              isDataSource(elements[k])}},
                                          InitSinks(elements))
    /\ get_types = [t \in Types |-> Unresolved]
    /\ put_types = [t \in Types |-> Unresolved]
    /\ op = NoCall
    /\ outcome = "none"
    /\ result = <<>>
    /\ trace = <<>>
    /\ context = NoneContext
    /\ heap = <<>>
    /\ gen = NoGenerator
    /\ threads = <<>>
    /\ builds = NoBuilds
    /\ QueryValidator_init

\* pipeline._transform(source_type, target_type): the chain and its cost, or
\* NoConversionError.
Resolve ==
    \E source_type \in ResolveTypes, target_type \in ResolveTypes :
        \E r \in dijkstra_paths(type_graph, source_type, target_type) :
            /\ op' = [name |-> "_transform", source_type |-> source_type,
                      target_type |-> target_type]
            /\ result' = <<TransformAlong(type_graph, r)>>
            /\ outcome' = IF r.found THEN "ok" ELSE "NoConversionError"
            /\ UNCHANGED <<config, validator, caches, trace, context, heap, gen, concvars>>

NextResolve == Resolve

SpecResolve == InitResolve /\ [][NextResolve]_vars

---------------------------------------------------------------------------
(* The handler factory on its own: _get_handlers and _put_handlers called on
   the pipeline for a type, as the repository's tests call them, on pipelines
   that may also hold an origin of two types and an origin without dispatch
   registrations *)

BuildElementNames == ElementNames \cup {"FloatStrSource", "AnySource"}

BuildElementChoices == {s \in SeqsUpTo(BuildElementNames, MaxElements) : NoRepeat(s)}

InitBuild ==
    /\ elements \in BuildElementChoices
    /\ transformers \in TransformerChoices
    /\ sources = InitSources(elements, Len(elements))
    /\ sinks = InitSinks(elements)
    /\ type_graph = build_type_graph({elements[i] : i \in {k \in 1..Len(elements) :
                                                           isDataSource(elements[k])}},
                                     InitSinks(elements), transformers)
    /\ annotations \in build_annotations({elements[i] : i \in {k \in 1..Len(elements) :
                                                              isDataSource(elements[k])}},
                                          InitSinks(elements))
    /\ get_types = [t \in Types |-> Unresolved]
    /\ put_types = [t \in Types |-> Unresolved]
    /\ op = NoCall
    /\ outcome = "none"
    /\ result = <<>>
    /\ trace = <<>>
    /\ context = NoneContext
    /\ heap = <<>>
    /\ gen = NoGenerator
    /\ threads = <<>>
    /\ builds = NoBuilds
    /\ QueryValidator_init

\* The call returned the handlers r.handlers or raised r.exc; the handlers are
\* built afresh and nothing of the pipeline changes.
GotHandlers(name, type, r) ==
    /\ op' = [name |-> name, type |-> type, streaming |-> FALSE, query |-> {}]
    /\ outcome' = IF r.exc = "none" THEN "ok" ELSE r.exc
    /\ result' = IF r.exc = "none" THEN <<r.handlers>> ELSE <<>>
    /\ UNCHANGED <<config, validator, caches, trace, context, heap, gen, concvars>>

\* DataPipeline._get_handlers
GetHandlers ==
    \E type \in Types :
        GotHandlers("_get_handlers", type, get_handlers(type_graph, sources, type))

\* DataPipeline._put_handlers
PutHandlers ==
    \E type \in Types :
        GotHandlers("_put_handlers", type, put_handlers(type_graph, sinks, type))

NextBuild == GetHandlers \/ PutHandlers

SpecBuild == InitBuild /\ [][NextBuild]_vars

---------------------------------------------------------------------------
(* QueryValidator (src/datapipelines/queries.py): the validation nodes *)

\* A query value is known by its Python type and its text.
IntValue == [type |-> "int", repr |-> "1"]
StrValue == [type |-> "str", repr |-> "x"]
LiteralDefault == [type |-> "int", repr |-> "7"]
SuppliedValue == [type |-> "int", repr |-> "9"]

\* A key the query does not hold (query[key] raises KeyError)
Absent == [type |-> "absent", repr |-> ""]

\* The texts int() and float() accept
Numerals == {"1", "7", "9"}

\* isinstance(value, type), for the types int, float and str
isinstance(value, type) == value.type = type

\* `type(value)` in line 173, where `type` is the loop variable of line 165 and
\* not the builtin: the last allowed type is called on the value.  str() takes
\* every value; int() and float() raise ValueError on a text that is no number.
CallType(type, value) ==
    IF type \in {"int", "float"} /\ value.type = "str" /\ value.repr \notin Numerals
    THEN "ValueError"
    ELSE "none"

\* _KeyNode(key, required), _TypeNode(key, types) with the types in iteration
\* order, _DefaultValueNode(key, value, supplies_type); a missing child is <<>>
KeyNode(key, required) == [key |-> key, required |-> required, child |-> <<>>]
TypeNode(key, types) == [key |-> key, types |-> types, child |-> <<>>]
DefaultValueNode(key, value, supplies_type) ==
    [key |-> key, value |-> value, supplies_type |-> supplies_type]

\* How an evaluate call ends: it returns a value or raises exc (about key), and
\* leaves the query it was given, changed in place, and the supplier calls made.
Done(value, query, tr) ==
    [exc |-> "none", key |-> "", value |-> value, query |-> query, trace |-> tr]
Raise(exc, key, query, tr) ==
    [exc |-> exc, key |-> key, value |-> FALSE, query |-> query, trace |-> tr]

\* _DefaultValueNode.evaluate (lines 141-146); supplies_type is "" for None
DefaultValueNode_evaluate(node, query, tr) ==
    IF node.supplies_type # ""
    THEN Done(TRUE, [query EXCEPT ![node.key] = SuppliedValue],
              Append(tr, [call |-> "supplier", key |-> node.key]))
    ELSE Done(TRUE, [query EXCEPT ![node.key] = node.value], tr)

\* _TypeNode.evaluate running the default child whether or not the key is there
TypeNode_evaluate_defaults_always(node, query, tr) ==
    IF node.child # <<>>
    THEN DefaultValueNode_evaluate(node.child[1], query, tr)
    ELSE IF query[node.key] = Absent
    THEN Done(TRUE, query, tr)
    ELSE IF \E i \in 1..Len(node.types) : isinstance(query[node.key], node.types[i])
    THEN Done(TRUE, query, tr)
    ELSE Raise("WrongValueTypeError", node.key, query, tr)

\* _TypeNode.evaluate (lines 162-177), for a non-empty collection of types
\* none of which is an Enum or a typing generic
TypeNode_evaluate(node, query, tr) ==
    IF query[node.key] = Absent
    THEN IF node.child # <<>>
         THEN DefaultValueNode_evaluate(node.child[1], query, tr)
         ELSE Done(TRUE, query, tr)
    ELSE IF \E i \in 1..Len(node.types) : isinstance(query[node.key], node.types[i])
    THEN Done(TRUE, query, tr)
    ELSE IF CallType(node.types[Len(node.types)], query[node.key]) # "none"
    THEN Raise(CallType(node.types[Len(node.types)], query[node.key]), node.key,
               query, tr)
    ELSE Raise("WrongValueTypeError", node.key, query, tr)

\* The child's evaluation r decides nothing about presence: has_key is returned.
Returning(r, has_key) == IF r.exc = "none" THEN [r EXCEPT !.value = has_key] ELSE r

\* _KeyNode.evaluate that lets a missing required key pass
KeyNode_evaluate_lenient(node, query, tr) ==
    IF node.child # <<>>
    THEN Returning(TypeNode_evaluate(node.child[1], query, tr), query[node.key] # Absent)
    ELSE Done(query[node.key] # Absent, query, tr)

\* _KeyNode.evaluate (lines 193-199)
KeyNode_evaluate(node, query, tr) ==
    IF node.required /\ query[node.key] = Absent
    THEN Raise("MissingKeyError", node.key, query, tr)
    ELSE IF node.child # <<>>
    THEN Returning(TypeNode_evaluate(node.child[1], query, tr), query[node.key] # Absent)
    ELSE Done(query[node.key] # Absent, query, tr)

\* A declaration (a child of the root) is a sequence of levels.  A level is a
\* bare _KeyNode, or an _AndNode or _OrNode with its _KeyNode children in order;
\* the next level, when there is one, is the last child of the level before.
Level(node, keys) == [node |-> node, keys |-> keys]

\* len(self.children) of the group at level i of declaration d
NumChildren(d, i) == Len(d[i].keys) + (IF i < Len(d) THEN 1 ELSE 0)

\* child.falsifiable (lines 71-73, 102-104, 189-191) of child j of level i
falsifiable(d, i, j) ==
    IF j <= Len(d[i].keys) THEN ~d[i].keys[j].required ELSE d[i + 1].node = "_OrNode"

RECURSIVE Node_evaluate(_, _, _, _)
RECURSIVE AndNode_evaluate(_, _, _, _)
RECURSIVE OrNode_evaluate(_, _, _, _)

\* child.evaluate(query, context) for child j of level i
Child_evaluate(d, i, j, query, tr) ==
    IF j <= Len(d[i].keys)
    THEN KeyNode_evaluate(d[i].keys[j], query, tr)
    ELSE Node_evaluate(d, i + 1, query, tr)

\* Lines 85-88: child j returned r (or raised, which ends the evaluation).
AndNode_next(d, i, j, acc, r) ==
    IF r.exc # "none" THEN r
    ELSE AndNode_evaluate(d, i, j + 1,
             [all_true |-> acc.all_true /\ r.value,
              all_possible_false |-> IF falsifiable(d, i, j)
                                     THEN acc.all_possible_false /\ ~r.value
                                     ELSE acc.all_possible_false,
              query |-> r.query, trace |-> r.trace])

\* _AndNode.evaluate that passes only when every child is present
AndNode_evaluate_all_true(d, i, j, acc) ==
    IF j > NumChildren(d, i)
    THEN IF acc.all_true
         THEN Done(TRUE, acc.query, acc.trace)
         ELSE Raise("BoundKeyExistenceError", "", acc.query, acc.trace)
    ELSE AndNode_next(d, i, j, acc, Child_evaluate(d, i, j, acc.query, acc.trace))

\* _AndNode.evaluate (lines 75-92) from child j on; acc holds the locals.
AndNode_evaluate(d, i, j, acc) ==
    IF j > NumChildren(d, i)
    THEN IF acc.all_possible_false \/ acc.all_true
         THEN Done(TRUE, acc.query, acc.trace)
         ELSE Raise("BoundKeyExistenceError", "", acc.query, acc.trace)
    ELSE AndNode_next(d, i, j, acc, Child_evaluate(d, i, j, acc.query, acc.trace))

\* Lines 115-122: child j returned r, or raised an error the loop collects, or
\* raised another exception, which ends the evaluation.
OrNode_next(d, i, j, acc, r) ==
    IF r.exc \in {"MissingKeyError", "BoundKeyExistenceError"}
    THEN OrNode_evaluate(d, i, j + 1,
             [errors |-> Append(acc.errors, [exc |-> r.exc, key |-> r.key]),
              failure_count |-> acc.failure_count + 1,
              result |-> acc.result, query |-> r.query, trace |-> r.trace])
    ELSE IF r.exc # "none" THEN r
    ELSE OrNode_evaluate(d, i, j + 1,
             [errors |-> acc.errors,
              failure_count |-> acc.failure_count + (IF r.value THEN 0 ELSE 1),
              result |-> r.value \/ acc.result,
              query |-> r.query, trace |-> r.trace])

\* _OrNode.evaluate that raises as soon as one child raised
OrNode_evaluate_any_error(d, i, j, acc) ==
    IF j > NumChildren(d, i)
    THEN IF Len(acc.errors) > 0
         THEN Raise(acc.errors[1].exc, acc.errors[1].key, acc.query, acc.trace)
         ELSE Done(acc.result, acc.query, acc.trace)
    ELSE OrNode_next(d, i, j, acc, Child_evaluate(d, i, j, acc.query, acc.trace))

\* _OrNode.evaluate (lines 106-125) from child j on; acc holds the locals.
OrNode_evaluate(d, i, j, acc) ==
    IF j > NumChildren(d, i)
    THEN IF acc.failure_count = NumChildren(d, i) /\ Len(acc.errors) > 0
         THEN Raise(acc.errors[1].exc, acc.errors[1].key, acc.query, acc.trace)
         ELSE Done(acc.result, acc.query, acc.trace)
    ELSE OrNode_next(d, i, j, acc, Child_evaluate(d, i, j, acc.query, acc.trace))

\* node.evaluate(query, context) for the node at level i of declaration d
Node_evaluate(d, i, query, tr) ==
    IF d[i].node = "_AndNode"
    THEN AndNode_evaluate(d, i, 1, [all_true |-> TRUE, all_possible_false |-> TRUE,
                                    query |-> query, trace |-> tr])
    ELSE IF d[i].node = "_OrNode"
    THEN OrNode_evaluate(d, i, 1, [errors |-> <<>>, failure_count |-> 0,
                                   result |-> FALSE, query |-> query, trace |-> tr])
    ELSE KeyNode_evaluate(d[i].keys[1], query, tr)

RECURSIVE RootNode_evaluate(_, _, _, _)

\* Line 60: declaration k returned r or raised.
RootNode_next(children, k, r) ==
    IF r.exc # "none" THEN r ELSE RootNode_evaluate(children, k + 1, r.query, r.trace)

\* _RootNode.evaluate applying the all-or-none rule to neighbouring declarations
RootNode_evaluate_all_or_none(children, k, query, tr) ==
    IF k > Len(children) THEN Done(TRUE, query, tr)
    ELSE IF /\ k < Len(children)
            /\ Node_evaluate(children[k], 1, query, tr).exc = "none"
            /\ Node_evaluate(children[k + 1], 1, query, tr).exc = "none"
            /\ Node_evaluate(children[k], 1, query, tr).value
                   # Node_evaluate(children[k + 1], 1, query, tr).value
    THEN Raise("BoundKeyExistenceError", "", query, tr)
    ELSE RootNode_next(children, k, Node_evaluate(children[k], 1, query, tr))

\* _RootNode.evaluate (lines 55-61) from child k on
RootNode_evaluate(children, k, query, tr) ==
    IF k > Len(children) THEN Done(TRUE, query, tr)
    ELSE RootNode_next(children, k, Node_evaluate(children[k], 1, query, tr))

\* QueryValidator.__call__
QueryValidator_call(children, query) == RootNode_evaluate(children, 1, query, <<>>)

---------------------------------------------------------------------------
(* QueryValidator: the fluent builder.  v is the validator's state, the record
   of _root.children, _current and _parent; a builder call returns the state it
   leaves and the exception it raised, if any *)

RootRef == [node |-> "_RootNode", at |-> <<>>]
GroupRef(node, d, l) == [node |-> node, at |-> <<d, l>>]
KeyRef(d, l, p) == [node |-> "_KeyNode", at |-> <<d, l, p>>]

\* The _KeyNode that self._current refers to
CurrentNode(v) == v.root[v.current.at[1]][v.current.at[2]].keys[v.current.at[3]]

\* list.remove and list.append on a children list
RemoveAt(s, p) == [k \in 1..(Len(s) - 1) |-> IF k < p THEN s[k] ELSE s[k + 1]]

Selects(rt, cur, par) == [exc |-> "none", root |-> rt, current |-> cur, parent |-> par]
StructureError(v) ==
    [exc |-> "QueryValidatorStructureError", root |-> v.root, current |-> v.current,
     parent |-> v.parent]

\* Lines 215-219 and 225-229: a new declaration of one key
Declare(v, key, required) ==
    Selects(Append(v.root, <<Level("_KeyNode", <<KeyNode(key, required)>>)>>),
          KeyRef(Len(v.root) + 1, 1, 1), RootRef)

\* has that never refuses
has_unchecked(v, key) == Declare(v, key, TRUE)

\* QueryValidator.has (lines 211-219)
has(v, key) == IF v.current # None THEN StructureError(v) ELSE Declare(v, key, TRUE)

\* QueryValidator.can_have (lines 221-229)
can_have(v, key) == IF v.current # None THEN StructureError(v) ELSE Declare(v, key, FALSE)

\* Lines 252, 259-261 (269, 276-278): the parent is a group of the wanted kind
\* and takes the new key as its last child.
Extend(v, key) ==
    Selects([v.root EXCEPT ![v.parent.at[1]][v.parent.at[2]].keys =
               Append(@, KeyNode(key, CurrentNode(v).required))],
          KeyRef(v.parent.at[1], v.parent.at[2],
                 Len(v.root[v.parent.at[1]][v.parent.at[2]].keys) + 1),
          v.parent)

\* Lines 254-261 (271-278) when the parent is the root: the selected key is
\* taken out of the root's children and a new group of that key and
\* the new one is appended to them.
PromoteInRoot(v, key, node) ==
    Selects(Append(RemoveAt(v.root, v.current.at[1]),
                 <<Level(node, <<CurrentNode(v), KeyNode(key, CurrentNode(v).required)>>)>>),
          KeyRef(Len(v.root), 1, 2), GroupRef(node, Len(v.root), 1))

\* Lines 254-261 (271-278) when the parent is a group of the other kind: the
\* selected key is taken out of the group and a new group of that key and the
\* new one becomes the group's last child, one level down.
PromoteInGroup(v, key, node) ==
    Selects([v.root EXCEPT ![v.current.at[1]] =
               Append([@ EXCEPT ![v.current.at[2]].keys = RemoveAt(@, v.current.at[3])],
                      Level(node, <<CurrentNode(v),
                                    KeyNode(key, CurrentNode(v).required)>>))],
          KeyRef(v.current.at[1], v.current.at[2] + 1, 2),
          GroupRef(node, v.current.at[1], v.current.at[2] + 1))

\* The common shape of or_ and and_
Join(v, key, node) ==
    IF v.current = None THEN StructureError(v)
    ELSE IF v.parent.node = node THEN Extend(v, key)
    ELSE IF v.parent = RootRef THEN PromoteInRoot(v, key, node)
    ELSE PromoteInGroup(v, key, node)

\* QueryValidator.or_ (lines 247-262)
or_(v, key) == Join(v, key, "_OrNode")

\* and_ joining the new key to the whole open group instead of its last key
and_whole_group(v, key) ==
    IF v.current = None THEN StructureError(v)
    ELSE IF v.parent = RootRef THEN PromoteInRoot(v, key, "_AndNode")
    ELSE Extend(v, key)

\* QueryValidator.and_ (lines 264-279)
and_(v, key) == Join(v, key, "_AndNode")

\* also that keeps the key selected
also_keeps_current(v) ==
    IF v.current = None THEN StructureError(v) ELSE Selects(v.root, v.current, v.parent)

\* QueryValidator.also (lines 281-288)
also(v) == IF v.current = None THEN StructureError(v) ELSE Selects(v.root, None, None)

\* Lines 235-237 and 243-245: the selected key gets the _TypeNode as its child.
WithChild(v, type_node) ==
    Selects([v.root EXCEPT ![v.current.at[1]][v.current.at[2]].keys[v.current.at[3]].child =
               <<type_node>>],
          v.current, v.parent)

\* as_ that replaces a type constraint already there
as_replacing(v, type) ==
    IF v.current = None THEN StructureError(v)
    ELSE WithChild(v, TypeNode(CurrentNode(v).key, <<type>>))

\* QueryValidator.as_ (lines 231-237)
as_(v, type) ==
    IF v.current = None THEN StructureError(v)
    ELSE IF CurrentNode(v).child # <<>> THEN StructureError(v)
    ELSE WithChild(v, TypeNode(CurrentNode(v).key, <<type>>))

\* QueryValidator.as_any_of (lines 239-245); types in iteration order
as_any_of(v, types) ==
    IF v.current = None THEN StructureError(v)
    ELSE IF CurrentNode(v).child # <<>> THEN StructureError(v)
    ELSE WithChild(v, TypeNode(CurrentNode(v).key, types))

\* QueryValidator.with_default (lines 290-305); supplies_type is "" for None,
\* and then the expected type is type(value)
with_default(v, value, supplies_type) ==
    IF v.current = None THEN StructureError(v)
    ELSE IF CurrentNode(v).child # <<>> THEN StructureError(v)
    ELSE IF CurrentNode(v).required THEN StructureError(v)
    ELSE WithChild(v, [TypeNode(CurrentNode(v).key,
                                <<IF supplies_type # "" THEN supplies_type
                                  ELSE value.type>>)
                       EXCEPT !.child = <<DefaultValueNode(CurrentNode(v).key, value,
                                                           supplies_type)>>])

---------------------------------------------------------------------------
(* The state machine of one QueryValidator: builder calls in any order, and
   calls of the validator on a query at any time *)

\* The places of the _KeyNodes under the root, and the keys they declare
KeyPlaces(rt) ==
    UNION { UNION { {<<d, l, p>> : p \in 1..Len(rt[d][l].keys)} : l \in 1..Len(rt[d]) } :
            d \in 1..Len(rt) }
UsedKeys(rt) == {rt[x[1]][x[2]].keys[x[3]].key : x \in KeyPlaces(rt)}

\* The keys a builder call may name: one the validator declares already, or
\* the first name not declared yet (validators alike up to the names of their
\* keys are built once).
KeyNames == <<"a", "b", "c", "d", "e", "f">>
Keys(n) == {KeyNames[k] : k \in 1..n}
NextKeys(rt) == UsedKeys(rt) \cup {KeyNames[Cardinality(UsedKeys(rt)) + 1]}

\* The validator as the builder calls see it
Self == [root |-> root, current |-> current, parent |-> parent]

\* A callable given to with_default
Supplier == [type |-> "function", repr |-> "supplier"]

InitValidator ==
    /\ elements = <<>>
    /\ transformers = <<>>
    /\ sources = <<>>
    /\ sinks = {}
    /\ type_graph = build_type_graph({}, {}, <<>>)
    /\ annotations \in build_annotations({}, {})
    /\ get_types = [t \in Types |-> Unresolved]
    /\ put_types = [t \in Types |-> Unresolved]
    /\ op = NoCall
    /\ outcome = "none"
    /\ result = <<>>
    /\ trace = <<>>
    /\ context = NoneContext
    /\ heap = <<>>
    /\ gen = NoGenerator
    /\ threads = <<>>
    /\ builds = NoBuilds
    /\ QueryValidator_init

\* A builder call returned the validator (outcome "ok") or raised.
BuilderCall(name, arg, r) ==
    /\ op' = [name |-> name, arg |-> arg]
    /\ outcome' = IF r.exc = "none" THEN "ok" ELSE r.exc
    /\ result' = <<>>
    /\ trace' = <<>>
    /\ heap' = <<>>
    /\ root' = r.root
    /\ current' = r.current
    /\ parent' = r.parent
    /\ UNCHANGED <<config, caches, context, gen, concvars>>

\* A builder call that would declare a key beyond the bound max is left out.
Room(max) == Cardinality(KeyPlaces(root)) < max

Has(max) ==
    \E key \in NextKeys(root) :
        /\ current = None => Room(max)
        /\ BuilderCall("has", key, has(Self, key))

CanHave(max) ==
    \E key \in NextKeys(root) :
        /\ current = None => Room(max)
        /\ BuilderCall("can_have", key, can_have(Self, key))

Or(max) ==
    \E key \in NextKeys(root) :
        /\ current # None => Room(max)
        /\ BuilderCall("or_", key, or_(Self, key))

And(max) ==
    \E key \in NextKeys(root) :
        /\ current # None => Room(max)
        /\ BuilderCall("and_", key, and_(Self, key))

Also == BuilderCall("also", "", also(Self))

As == \E type \in {"int", "str"} : BuilderCall("as_", <<type>>, as_(Self, type))

AsAnyOf ==
    \E types \in {<<"int", "str">>, <<"str", "int">>} :
        BuilderCall("as_any_of", types, as_any_of(Self, types))

WithDefault ==
    \E d \in {[value |-> LiteralDefault, supplies_type |-> ""],
              [value |-> Supplier, supplies_type |-> "int"]} :
        BuilderCall("with_default", d, with_default(Self, d.value, d.supplies_type))

\* validator(query) returned r.value or raised r.exc about r.key; heap holds
\* the caller's query as the call left it, trace the supplier calls.
Called(query, r) ==
    /\ op' = [name |-> "__call__", arg |-> query]
    /\ outcome' = IF r.exc = "none" THEN "ok" ELSE r.exc
    /\ result' = IF r.exc = "none" THEN <<r.value>> ELSE <<r.key>>
    /\ trace' = r.trace
    /\ heap' = <<r.query>>
    /\ UNCHANGED <<config, caches, context, gen, concvars, validator>>

\* The validator is called on a query over the keys with the values.
Validate(keys, values) ==
    \E query \in [keys -> values \cup {Absent}] :
        Called(query, QueryValidator_call(root, query))

\* Validators of keys without type constraints, on queries of integer values
NextGroups ==
    \/ Has(MaxKeyNodes)
    \/ CanHave(MaxKeyNodes)
    \/ Or(MaxKeyNodes)
    \/ And(MaxKeyNodes)
    \/ Also
    \/ Validate(Keys(MaxKeyNodes), {IntValue})

SpecGroups == InitValidator /\ [][NextGroups]_vars

\* Validators of keys with type constraints and defaults, on queries of
\* integer and string values
NextTypes ==
    \/ Has(MaxTypedKeyNodes)
    \/ CanHave(MaxTypedKeyNodes)
    \/ Or(MaxTypedKeyNodes)
    \/ And(MaxTypedKeyNodes)
    \/ Also
    \/ As
    \/ AsAnyOf
    \/ WithDefault
    \/ Validate(Keys(MaxTypedKeyNodes), {IntValue, StrValue})

SpecTypes == InitValidator /\ [][NextTypes]_vars

---------------------------------------------------------------------------
(* Properties *)

IsOriginCall(e) == e.ev \in {"get", "get_many"}
IsWrite(e) == e.ev \in {"put", "put_many"}

\* The origin calls of the finished call, in order
OriginCalls == SelectSeq(trace, IsOriginCall)

\* The finished call is a get or get_many that ran the loop over a list of
\* SourceHandlers, which the cache then holds.
Looped ==
    /\ op.name \in {"get", "get_many"}
    /\ get_types[op.type].state = "list"
    /\ outcome \notin {"none", "TypeError"}

\* The position of an element in the element sequence
Position(e) == CHOOSE i \in 1..Len(elements) : elements[i] = e

\* C1: get and get_many call the origins of the cached SourceHandlers one at a
\* time in list order, which is the registration order of the origins; the next
\* origin is called only after the one before it signalled NotFoundError, no
\* origin is called after one that answered otherwise, that answer is what the
\* call returns or raises, and NotFoundError is raised only when every handler's
\* origin signalled NotFoundError.
C1_Fallthrough ==
    Looped =>
        LET hs == get_types[op.type].list
            oc == OriginCalls
            last == oc[Len(oc)]
        IN  /\ 1 <= Len(oc) /\ Len(oc) <= Len(hs)
            /\ \A k \in 1..Len(oc) :
                   /\ oc[k].who = hs[k].source
                   /\ oc[k].type = hs[k].source_type
            /\ \A k \in 1..(Len(oc) - 1) : oc[k].res = "NotFoundError"
            /\ \A k, l \in 1..Len(hs) :
                   k < l => Position(hs[k].source) < Position(hs[l].source)
            /\ last.res = "NotFoundError" => Len(oc) = Len(hs)
            /\ outcome = (IF last.res = "ok" THEN "ok" ELSE last.res)
            /\ (outcome = "ok" /\ ~op.streaming) =>
                   result = [k \in 1..Len(last.vals) |->
                                 Transformed(hs[Len(oc)].transform, last.vals[k])]
            /\ outcome = "NotFoundError" =>
                   /\ Len(oc) = Len(hs)
                   /\ \A k \in 1..Len(oc) : oc[k].res = "NotFoundError"

\* C1 witness: a get whose first origin signalled NotFoundError and whose second
\* origin answered.
C1_Witness ==
    /\ Looped
    /\ op.name = "get"
    /\ Len(OriginCalls) = 2
    /\ OriginCalls[1].res = "NotFoundError"
    /\ outcome = "ok"

\* C2: a handler-cache entry that is resolved keeps its content in every step.
C2_SlotsPermanent ==
    [][\A t \in Types :
           /\ get_types[t].state # "unresolved" => get_types'[t] = get_types[t]
           /\ put_types[t].state # "unresolved" => put_types'[t] = put_types[t]]_vars

\* The origin that served the finished get or get_many: the last one called.
ServingOrigin == OriginCalls[Len(OriginCalls)].who

\* C3: every destination written while a get or get_many is served, the writes
\* of a consumed streaming result included, stands before the serving origin in
\* the element sequence.
C3_FanOutOnlyToEarlier ==
    Looped =>
        \A k \in 1..Len(trace) :
            IsWrite(trace[k]) => Position(trace[k].who) < Position(ServingOrigin)

\* C3 witness: a get was served with a write although a destination that
\* could take the requested type stands after the serving origin.
C3_Witness ==
    /\ Looped
    /\ outcome = "ok"
    /\ \E k \in 1..Len(trace) : IsWrite(trace[k])
    /\ \E s \in sinks :
           /\ Position(s) > Position(ServingOrigin)
           /\ ~accepts(s).wild
           /\ SinkHandlerFor(type_graph, op.type, s) # {}

\* The place in the trace of the last origin call
LastOriginCall ==
    CHOOSE m \in 1..Len(trace) :
        /\ IsOriginCall(trace[m])
        /\ \A m2 \in (m + 1)..Len(trace) : ~IsOriginCall(trace[m2])

\* The places in the trace of the writes to a sink
Writes(s) == {k \in 1..Len(trace) : IsWrite(trace[k]) /\ trace[k].who = s}

\* C4: in a get or get_many every write follows the call of an origin that
\* answered, and is a write of that origin's SourceHandler: nothing is written
\* for an origin that signalled NotFoundError. A get returns the converted value
\* of the origin that answered and writes once to each of its handler's sinks.
C4_NotFoundWritesNothing ==
    Looped =>
        LET hs == get_types[op.type].list
            oc == OriginCalls
            serving == hs[Len(oc)]
            mine == serving.before_transform \cup serving.after_transform
        IN  /\ \A k \in 1..Len(trace) :
                   IsWrite(trace[k]) =>
                       /\ oc[Len(oc)].res = "ok"
                       /\ k > LastOriginCall
                       /\ \E h \in mine : /\ h.sink = trace[k].who
                                          /\ h.store_type = trace[k].type
            /\ (op.name = "get" /\ outcome = "ok") =>
                   /\ result = <<Transformed(serving.transform,
                                             Fetched(serving.source_type, 1))>>
                   /\ \A h \in mine : Cardinality(Writes(h.sink)) = 1

\* C4 witness: the first origin, whose handler has sinks, signalled
\* NotFoundError, the second answered and its handler wrote.
C4_Witness ==
    /\ Looped
    /\ op.name = "get"
    /\ outcome = "ok"
    /\ Len(OriginCalls) = 2
    /\ OriginCalls[1].res = "NotFoundError"
    /\ get_types[op.type].list[1].before_transform
           \cup get_types[op.type].list[1].after_transform # {}
    /\ \E k \in 1..Len(trace) : IsWrite(trace[k])

\* No origin can supply the type: building its handlers gives none.
NoRoute(t) == get_handlers(type_graph, sources, t).exc = "NoConversionError"

\* C5: a get or get_many for a type no origin can supply raises
\* NoConversionError, and the cache entry of the type holds "no route".
C5_NoRouteCached ==
    (op.name \in {"get", "get_many"} /\ NoRoute(op.type)) =>
        /\ outcome = "NoConversionError"
        /\ get_types[op.type] = NoneSlot

\* A value of type t can be converted to type u by registered converters.
Convertible(t, u) ==
    \/ t = u
    \/ /\ t \in type_graph.nodes
       /\ u \in type_graph.nodes
       /\ PathsFrom(type_graph, t, u, {}) # {}

\* The destination accepts type t directly or through a conversion chain.
Accepts(s, t) ==
    \/ accepts(s).wild
    \/ TYPE_WILDCARD \in accepts(s).types
    \/ \E u \in accepts(s).types : Convertible(t, u)

\* C6: a put or put_many of a type that no destination accepts returns without
\* raising and writes nothing.
C6_PutWithoutDestination ==
    (op.name \in {"put", "put_many"} /\ \A s \in sinks : ~Accepts(s, op.type)) =>
        /\ outcome = "ok"
        /\ trace = <<>>

\* C6 witness: a put on a pipeline that has destinations, none accepting the type.
C6_Witness ==
    /\ op.name \in {"put", "put_many"}
    /\ sinks # {}
    /\ \A s \in sinks : ~Accepts(s, op.type)

\* C7: a put writes the item once, as a type the destination accepts, to every
\* destination that accepts the type directly or through a conversion chain,
\* and to no other destination.
C7_PutReachesEveryAccepting ==
    op.name = "put" =>
        \A s \in sinks :
            IF Accepts(s, op.type)
            THEN /\ Cardinality(Writes(s)) = 1
                 /\ \A k \in Writes(s) :
                        /\ trace[k].vals[1].type = trace[k].type
                        /\ accepts(s).wild \/ trace[k].type \in accepts(s).types
            ELSE Writes(s) = {}

\* C8: the handler list of a type is built at most once, and the callers of the
\* same type that were served were served from the same list.
C8_PopulatedOnce ==
    /\ \A t \in Types : builds.count[t] <= 1
    /\ \A i, j \in 1..NumThreads :
           (/\ threads[i].pc = "done" /\ threads[j].pc = "done"
            /\ threads[i].type = threads[j].type
            /\ threads[i].list # 0 /\ threads[j].list # 0)
               => threads[i].list = threads[j].list

\* C9: every origin, destination and converter call of a top-level call is
\* given the context created for that call, which holds the pipeline.
C9_ContextEverywhere ==
    op.name # "none" =>
        \A k \in 1..Len(trace) :
            /\ trace[k].ctx = context
            /\ <<PIPELINE, "self">> \in trace[k].ctx.keys

\* C10: after a get or get_many, returned or raised, the caller's query map is
\* as it was given; every origin tried was given a map of its own, distinct
\* from the caller's and from the other origins', holding the caller's content.
C10_QueryCopied ==
    op.name \in {"get", "get_many"} =>
        /\ heap[1] = op.query
        /\ \A k \in 1..Len(OriginCalls) :
               /\ OriginCalls[k].q.content = op.query
               /\ OriginCalls[k].q.ref # 1
               /\ \A l \in 1..Len(OriginCalls) :
                      l # k => OriginCalls[l].q.ref # OriginCalls[k].q.ref

\* C10 witness: two origins were tried and the first mutated the map it got.
C10_Witness ==
    /\ op.name = "get"
    /\ Len(OriginCalls) = 2
    /\ heap[OriginCalls[1].q.ref] # op.query
    /\ heap[1] = op.query

\* The SourceHandler that served the finished get or get_many
ServingHandler == get_types[op.type].list[Len(OriginCalls)]

\* The value the serving origin returned to get
RawValue == OriginCalls[Len(OriginCalls)].vals[1]

\* The event at place k is the one write to the sink of SinkHandler sh, of the
\* value v as converted by the handler.
WritesOnceAt(k, sh, ev, v) ==
    /\ trace[k].ev = ev
    /\ trace[k].who = sh.sink
    /\ trace[k].type = sh.store_type
    /\ trace[k].vals = v
    /\ Writes(sh.sink) = {k}

\* C11: a get that returns has called the serving origin once; after that call
\* come the writes of the raw value to every "before" SinkHandler, then the
\* conversion calls of the handler's chain on the raw value, then the writes of
\* the converted value to every "after" SinkHandler; the converted value is
\* what is returned.
C11_GetStepsInOrder ==
    (Looped /\ op.name = "get" /\ outcome = "ok") =>
        LET h == ServingHandler
            conv == Transformed(h.transform, RawValue)
            n == Len(h.transform)
        IN  /\ Cardinality({k \in 1..Len(trace) :
                               IsOriginCall(trace[k]) /\ trace[k].who = h.source}) = 1
            /\ \E i \in LastOriginCall..(Len(trace) - n) :
                   /\ SubSeq(trace, i + 1, i + n)
                          = TransformCalls(h.transform, RawValue, context)
                   /\ \A sh \in h.before_transform :
                          \E k \in (LastOriginCall + 1)..i :
                              WritesOnceAt(k, sh, "put", <<Transformed(sh.transform, RawValue)>>)
                   /\ \A sh \in h.after_transform :
                          \E k \in (i + n + 1)..Len(trace) :
                              WritesOnceAt(k, sh, "put", <<Transformed(sh.transform, conv)>>)
            /\ result = <<conv>>

\* C11 witness: a get served by a handler that converts and has a sink on each
\* side of the conversion.
C11_Witness ==
    /\ Looped /\ op.name = "get" /\ outcome = "ok"
    /\ ServingHandler.transform # <<>>
    /\ ServingHandler.before_transform # {}
    /\ ServingHandler.after_transform # {}

\* The finished call is a streaming get_many that returned a lazy sequence.
Streamed ==
    /\ Looped /\ op.name = "get_many" /\ op.streaming /\ outcome = "ok"

\* The sequence the serving origin returned to get_many
RawValues == OriginCalls[Len(OriginCalls)].vals

\* The places in the trace of the events that handle the k-th upstream item
ItemEvents(k) ==
    {j \in (LastOriginCall + 1)..Len(trace) : trace[j].vals[1].item = RawValues[k].item}

\* C12: in a streaming get_many the items yielded so far are the converted
\* upstream items in upstream order; every sink write and conversion done so
\* far is for an item already yielded, the events of an earlier item all come
\* before those of a later one, and the events of one item are its "before"
\* writes, then its conversion, then its "after" writes.
C12_StreamOneAtATime ==
    Streamed =>
        LET h == ServingHandler
            n == Len(h.transform)
        IN  /\ Len(result) = gen.yielded
            /\ \A k \in 1..gen.yielded : result[k] = Transformed(h.transform, RawValues[k])
            /\ \A j \in (LastOriginCall + 1)..Len(trace) :
                   \E k \in 1..gen.yielded : j \in ItemEvents(k)
            /\ \A k, l \in 1..gen.yielded :
                   k < l => \A i \in ItemEvents(k), j \in ItemEvents(l) : i < j
            /\ \A k \in 1..gen.yielded :
                   \E i \in LastOriginCall..(Len(trace) - n) :
                       /\ SubSeq(trace, i + 1, i + n)
                              = TransformCalls(h.transform, RawValues[k], gen.context)
                       /\ \A sh \in h.before_transform :
                              \E j \in ItemEvents(k) :
                                  /\ j <= i
                                  /\ trace[j].ev = "put" /\ trace[j].who = sh.sink
                                  /\ trace[j].vals = <<Transformed(sh.transform, RawValues[k])>>
                       /\ \A sh \in h.after_transform :
                              \E j \in ItemEvents(k) :
                                  /\ j > i + n
                                  /\ trace[j].ev = "put" /\ trace[j].who = sh.sink
                                  /\ trace[j].vals =
                                         <<Transformed(sh.transform, result[k])>>

\* C12 witness: two items were yielded by a handler that converts and writes.
C12_Witness ==
    /\ Streamed
    /\ gen.yielded = 2
    /\ ServingHandler.transform # <<>>
    /\ ServingHandler.before_transform \cup ServingHandler.after_transform # {}

\* The writes to a sink made for the serving origin
WritesAfterOrigin(s) == {j \in Writes(s) : j > LastOriginCall}

\* After k items were taken from a streaming result, k items have been pulled
\* from the origin's sequence and each sink of the handler was written k times.
PulledAsYielded ==
    Streamed =>
        /\ gen.upstream = SubSeq(RawValues, gen.yielded + 1, Len(RawValues))
        /\ \A sh \in ServingHandler.before_transform \cup ServingHandler.after_transform :
               Cardinality(WritesAfterOrigin(sh.sink)) = gen.yielded
        /\ \A s \in sinks :
               WritesAfterOrigin(s) # {} =>
                   \E sh \in ServingHandler.before_transform
                                 \cup ServingHandler.after_transform : sh.sink = s

\* While a call's outcome is held, the upstream is pulled and sinks are written
\* only by the consumer taking one more item.
OnlyOnRequest ==
    (~Idle /\ op' = op) =>
        \/ trace' = trace /\ gen'.upstream = gen.upstream
        \/ /\ gen.live /\ gen'.yielded = gen.yielded + 1
           /\ gen'.upstream = Tail(gen.upstream)

\* C13: a consumer that has taken k items of a streaming result has caused k
\* pulls from the origin's sequence and the writes of those k items only, and
\* nothing is pulled or written unless the consumer takes another item.
C13_StopPullsNothing == []PulledAsYielded /\ [][OnlyOnRequest]_vars

\* C13 witness: the consumer has taken one item of two and the sinks were
\* written for it.
C13_Witness ==
    /\ Streamed
    /\ gen.live
    /\ gen.yielded = 1
    /\ Len(gen.upstream) = 1
    /\ ServingHandler.before_transform \cup ServingHandler.after_transform # {}

\* The finished call is a non-streaming get_many that returned a list.
Materialized ==
    /\ Looped /\ op.name = "get_many" /\ ~op.streaming /\ outcome = "ok"

\* The values of a sequence as converted by a chain
TransformedAll(chain, vs) == [k \in 1..Len(vs) |-> Transformed(chain, vs[k])]

\* C14: a non-streaming get_many that returns has called the serving origin
\* once; every "before" SinkHandler got one put_many of the whole raw sequence,
\* then every element was converted, then every "after" SinkHandler got one
\* put_many of the whole converted sequence; the list returned holds the
\* converted elements in upstream order and has the upstream's length.
C14_BulkGetMany ==
    Materialized =>
        LET h == ServingHandler
            conv == TransformedAll(h.transform, RawValues)
            n == Len(h.transform) * Len(RawValues)
        IN  /\ Cardinality({k \in 1..Len(trace) :
                               IsOriginCall(trace[k]) /\ trace[k].who = h.source}) = 1
            /\ result = conv
            /\ Len(result) = Len(RawValues)
            /\ \E i \in LastOriginCall..(Len(trace) - n) :
                   /\ SubSeq(trace, i + 1, i + n)
                          = Concat([k \in 1..Len(RawValues) |->
                                       TransformCalls(h.transform, RawValues[k], context)])
                   /\ \A sh \in h.before_transform :
                          \E k \in (LastOriginCall + 1)..i :
                              WritesOnceAt(k, sh, "put_many",
                                           TransformedAll(sh.transform, RawValues))
                   /\ \A sh \in h.after_transform :
                          \E k \in (i + n + 1)..Len(trace) :
                              WritesOnceAt(k, sh, "put_many",
                                           TransformedAll(sh.transform, conv))

\* C14 witness: two values were returned by a handler that converts and has a
\* sink on each side of the conversion.
C14_Witness ==
    /\ Materialized
    /\ Len(result) = 2
    /\ ServingHandler.transform # <<>>
    /\ ServingHandler.before_transform # {}
    /\ ServingHandler.after_transform # {}

\* The registered converters, and the (from, to) pairs they declare
Registered == {transformers[i] : i \in 1..Len(transformers)}
DeclaredPairs == UNION {transforms(t) : t \in Registered}

\* The cost of the cheapest registered converter of a pair
HopCost(p) ==
    LET cs == {cost(t) : t \in {u \in Registered : p \in transforms(u)}}
    IN  CHOOSE c \in cs : \A d \in cs : c <= d

\* The pairs as a graph weighted by the cheapest converter of each pair
CheapestHops ==
    [nodes |-> {p[1] : p \in DeclaredPairs} \cup {p[2] : p \in DeclaredPairs},
     edges |-> [p \in DeclaredPairs |-> [cost |-> HopCost(p)]]]

\* The costs of the chains of registered converters from type a to type b
ChainCosts(a, b) ==
    IF a \in CheapestHops.nodes /\ b \in CheapestHops.nodes
    THEN {PathWeight(CheapestHops, p) : p \in PathsFrom(CheapestHops, a, b, {})}
    ELSE {}

Resolved == op.name = "_transform"

\* C15: resolve between two distinct types connected by a chain of registered
\* converters returns a chain, and the cost it reports is the least sum of
\* converter costs over all such chains.
C15_ResolveMinimumCost ==
    (/\ Resolved
     /\ op.source_type # op.target_type
     /\ ChainCosts(op.source_type, op.target_type) # {}) =>
        /\ outcome = "ok"
        /\ result[1].cost \in ChainCosts(op.source_type, op.target_type)
        /\ \A c \in ChainCosts(op.source_type, op.target_type) : result[1].cost <= c

\* The cheapest of the registered converters of a pair, the first in
\* registration order among those of equal cost
FirstCheapest(p) ==
    LET ds == {i \in 1..Len(transformers) : p \in transforms(transformers[i])}
        best == CHOOSE i \in ds : \A j \in ds :
                    \/ cost(transformers[i]) < cost(transformers[j])
                    \/ cost(transformers[i]) = cost(transformers[j]) /\ i <= j
    IN  transformers[best]

\* C16: the type graph has an edge exactly for the pairs the registered
\* converters declare, each edge carries the cheapest converter of its pair,
\* the first registered among those of equal cost, and a resolve that goes
\* along one edge gives that converter and reports its cost.
C16_EdgeKeepsCheapest ==
    /\ DOMAIN type_graph.edges = DeclaredPairs
    /\ \A p \in DeclaredPairs : type_graph.edges[p].transformer = FirstCheapest(p)
    /\ (Resolved /\ outcome = "ok" /\ Len(result[1].chain) = 1) =>
           /\ result[1].chain[1].transformer
                  = FirstCheapest(<<op.source_type, op.target_type>>)
           /\ result[1].cost = HopCost(<<op.source_type, op.target_type>>)

\* C16 witness: a resolve went along the edge of a pair that several
\* registered converters declare.
C16_Witness ==
    /\ Resolved /\ outcome = "ok" /\ Len(result[1].chain) = 1
    /\ Cardinality({t \in Registered :
                       <<op.source_type, op.target_type>> \in transforms(t)}) > 1

\* C17: resolve from a type to itself gives the identity with cost 0, whether
\* the type is a node of the type graph or not.
C17_ResolveSameType ==
    (Resolved /\ op.source_type = op.target_type) =>
        /\ outcome = "ok"
        /\ result = <<[ok |-> TRUE, chain |-> identity, cost |-> 0]>>

\* C17 witness: resolve from a type that is no node of the graph to itself.
C17_Witness ==
    /\ Resolved /\ op.source_type = op.target_type
    /\ op.source_type \notin type_graph.nodes

\* The nodes reached from the nodes of S along the edges of the graph
RECURSIVE ReachableFrom(_, _)
ReachableFrom(g, S) ==
    LET more == {b \in g.nodes \ S : \E a \in S : <<a, b>> \in DOMAIN g.edges}
    IN  IF more = {} THEN S ELSE ReachableFrom(g, S \cup more)

\* C18: resolve between two distinct types signals NoConversionError and gives
\* no chain when either type is no node of the graph or the target is not
\* reached from the source.
C18_ResolveNoConversion ==
    (/\ Resolved
     /\ op.source_type # op.target_type
     /\ \/ op.source_type \notin type_graph.nodes
        \/ op.target_type \notin type_graph.nodes
        \/ op.target_type \notin ReachableFrom(type_graph, {op.source_type})) =>
        /\ outcome = "NoConversionError"
        /\ ~result[1].ok
        /\ result[1].chain = <<>>

\* C18 witness: resolve between two nodes of the graph, the target not reached
\* from the source.
C18_Witness ==
    /\ Resolved
    /\ op.source_type # op.target_type
    /\ op.source_type \in type_graph.nodes
    /\ op.target_type \in type_graph.nodes
    /\ op.target_type \notin ReachableFrom(type_graph, {op.source_type})

\* The wildcard origins and destinations of the pipeline
WildOrigins == {sources[i].source : i \in {k \in 1..Len(sources) : provides(sources[k].source).wild}}
WildSinks == {s \in sinks : accepts(s).wild}

\* C19: the wildcard is no node of the type graph; on a pipeline with a
\* wildcard origin the handlers of get are built for every type without raising
\* and hold the origin bound to the requested type with the identity
\* conversion; on a pipeline with a wildcard destination the handlers of put
\* are built without raising and hold the destination likewise.
C19_WildcardMatchesDirectly ==
    /\ TYPE_WILDCARD \notin type_graph.nodes
    /\ (op.name = "_get_handlers" /\ WildOrigins # {}) =>
           /\ outcome = "ok"
           /\ \A s \in WildOrigins :
                  \E k \in 1..Len(result[1]) :
                      /\ result[1][k].source = s
                      /\ result[1][k].source_type = op.type
                      /\ result[1][k].transform = identity
    /\ (op.name = "_put_handlers" /\ WildSinks # {}) =>
           /\ outcome = "ok"
           /\ \A s \in WildSinks : SinkHandler(s, op.type, identity) \in result[1]

\* The origin can supply type t: it is a wildcard origin, provides t, or
\* provides a type that converts to t.
CanSupply(s, t) ==
    \/ provides(s).wild
    \/ t \in provides(s).types
    \/ \E u \in provides(s).types : Convertible(u, t)

\* The origins that can supply type t, in registration order
Suppliers(t) ==
    LET F[i \in 0..Len(sources)] ==
            IF i = 0 THEN <<>>
            ELSE IF CanSupply(sources[i].source, t)
                 THEN Append(F[i - 1], sources[i].source)
                 ELSE F[i - 1]
    IN  F[Len(sources)]

\* The handler h for type t is bound to t itself when its origin provides t,
\* else to a provided type from which the conversion to t costs least.
BoundToCheapest(h, t) ==
    IF provides(h.source).wild \/ t \in provides(h.source).types
    THEN h.source_type = t
    ELSE /\ h.source_type \in provides(h.source).types
         /\ ChainCosts(h.source_type, t) # {}
         /\ \A u \in provides(h.source).types :
                \A c \in ChainCosts(u, t) :
                    \E d \in ChainCosts(h.source_type, t) : d <= c

\* C20: when at least one origin can supply the type, the handlers of get are
\* built without raising and are the handlers of exactly the origins that can
\* supply it, in registration order, each bound to the requested type or to
\* the provided type that converts to it at least cost.
C20_UnreachableOriginsLeftOut ==
    (op.name = "_get_handlers" /\ Suppliers(op.type) # <<>>) =>
        /\ outcome = "ok"
        /\ [k \in 1..Len(result[1]) |-> result[1][k].source] = Suppliers(op.type)
        /\ \A k \in 1..Len(result[1]) : BoundToCheapest(result[1][k], op.type)

\* The validator was called on the query op.arg
Validated == op.name = "__call__"

\* The query the validator was called on holds the key
Present(key) == op.arg[key] # Absent

\* The validator is one declaration of one key: has(k) or can_have(k), with or
\* without a type constraint
OneKey == Len(root) = 1 /\ Len(root[1]) = 1 /\ root[1][1].node = "_KeyNode"
TheKey == root[1][1].keys[1]

\* C21: a validator that is one required key k raises MissingKeyError, naming
\* k, on a query exactly when the query lacks k.
C21_RequiredKeyMissing ==
    (Validated /\ OneKey /\ TheKey.required) =>
        /\ outcome = "MissingKeyError" <=> ~Present(TheKey.key)
        /\ outcome = "MissingKeyError" => result[1] = TheKey.key

C21_Witness ==
    /\ Validated /\ OneKey /\ TheKey.required
    /\ TheKey.child # <<>>
    /\ outcome = "MissingKeyError"

\* The value under the key is an instance of one of the key's allowed types
Allowed(node, value) ==
    \E i \in 1..Len(node.child[1].types) : isinstance(value, node.child[1].types[i])

\* C22: on a validator that is one key with a type constraint, a query that
\* holds the key with a value of none of the allowed types raises
\* WrongValueTypeError; a value of an allowed type passes and stays as it was.
C22_WrongValueType ==
    (Validated /\ OneKey /\ TheKey.child # <<>> /\ Present(TheKey.key)) =>
        IF Allowed(TheKey, op.arg[TheKey.key])
        THEN outcome = "ok" /\ heap[1][TheKey.key] = op.arg[TheKey.key]
        ELSE outcome = "WrongValueTypeError"

\* The validator is one declaration, a single group of the kind with n >= 2
\* keys of the required-ness, none with a type constraint
FlatGroup(node, required) ==
    /\ Len(root) = 1 /\ Len(root[1]) = 1
    /\ root[1][1].node = node
    /\ \A p \in 1..Len(root[1][1].keys) :
           root[1][1].keys[p].required = required /\ root[1][1].keys[p].child = <<>>
GroupKeys == {root[1][1].keys[p].key : p \in 1..Len(root[1][1].keys)}

\* C23: on can_have(k).and_(j)..., a query that holds all keys of the group
\* or none of them passes, and a query that holds some but not all of them
\* raises BoundKeyExistenceError.
C23_AllOrNone ==
    (Validated /\ FlatGroup("_AndNode", FALSE)) =>
        IF (\A k \in GroupKeys : Present(k)) \/ (\A k \in GroupKeys : ~Present(k))
        THEN outcome = "ok"
        ELSE outcome = "BoundKeyExistenceError"

C23_Witness ==
    /\ Validated /\ FlatGroup("_AndNode", FALSE)
    /\ Cardinality(GroupKeys) = 3
    /\ \E k \in GroupKeys : Present(k)
    /\ \E k \in GroupKeys : ~Present(k)
    /\ outcome = "BoundKeyExistenceError"

\* The validator is can_have(k).with_default(...)
OneDefault ==
    /\ OneKey /\ ~TheKey.required
    /\ TheKey.child # <<>>
    /\ TheKey.child[1].child # <<>>
TheDefault == TheKey.child[1].child[1]

\* The value the default node writes: the literal, or what the supplier returns
DefaultOf(node) == IF node.supplies_type # "" THEN SuppliedValue ELSE node.value

\* C24: on can_have(k).with_default(d), a query without k passes and comes
\* back with the default under k and nothing else changed, the supplier (if d
\* is one) having been called exactly once; a query with k of the default's
\* type passes unchanged and the supplier is not called.
C24_DefaultWhenAbsent ==
    (Validated /\ OneDefault) =>
        /\ ~Present(TheKey.key) =>
               /\ outcome = "ok"
               /\ heap[1] = [op.arg EXCEPT ![TheKey.key] = DefaultOf(TheDefault)]
               /\ Len(trace) = (IF TheDefault.supplies_type # "" THEN 1 ELSE 0)
        /\ (Present(TheKey.key) /\ Allowed(TheKey, op.arg[TheKey.key])) =>
               /\ outcome = "ok"
               /\ heap[1] = op.arg
               /\ trace = <<>>

C24_Witness ==
    /\ Validated /\ OneDefault
    /\ TheDefault.supplies_type # ""
    /\ ~Present(TheKey.key)
    /\ heap[1][TheKey.key] = SuppliedValue
    /\ Len(trace) = 1

\* Every key of the validator is optional and has no type constraint
AllOptional ==
    \A x \in KeyPlaces(root) :
        /\ ~root[x[1]][x[2]].keys[x[3]].required
        /\ root[x[1]][x[2]].keys[x[3]].child = <<>>

\* The query the validator was called on holds no key
EmptyQuery == \A k \in DOMAIN op.arg : ~Present(k)

\* C25: a validator built with can_have, and_, or_ and also only passes the
\* empty query.
C25_EmptyQueryPasses == (Validated /\ AllOptional /\ EmptyQuery) => outcome = "ok"

\* C26: on has(a).or_(b).or_(c)..., a query passes exactly when it holds at
\* least one key of the group; a query that holds none raises the
\* MissingKeyError of the first key of the group.
C26_RequiredOr ==
    (Validated /\ FlatGroup("_OrNode", TRUE)) =>
        IF \E k \in GroupKeys : Present(k)
        THEN outcome = "ok"
        ELSE outcome = "MissingKeyError" /\ result[1] = root[1][1].keys[1].key

C26_Witness ==
    /\ Validated /\ FlatGroup("_OrNode", TRUE)
    /\ Cardinality(GroupKeys) = 3
    /\ Present(root[1][1].keys[3].key)
    /\ ~Present(root[1][1].keys[1].key)
    /\ outcome = "ok"

\* The subclasses of QueryValidationError (lines 11-24)
QueryValidationErrors == {"MissingKeyError", "WrongValueTypeError", "BoundKeyExistenceError"}

\* Every key of the validator is required and has no type constraint
AllRequired ==
    \A x \in KeyPlaces(root) :
        /\ root[x[1]][x[2]].keys[x[3]].required
        /\ root[x[1]][x[2]].keys[x[3]].child = <<>>

\* The validator is has(a).and_(b) or has(a).or_(b): one group of two keys
TwoKeys(node) ==
    /\ Len(root) = 1 /\ Len(root[1]) = 1 /\ AllRequired
    /\ root[1][1].node = node /\ Len(root[1][1].keys) = 2

\* The validator is one declaration of the tree outer[a, inner[b, c]]
Nested(outer, inner) ==
    /\ Len(root) = 1 /\ Len(root[1]) = 2 /\ AllRequired
    /\ root[1][1].node = outer /\ Len(root[1][1].keys) = 1
    /\ root[1][2].node = inner /\ Len(root[1][2].keys) = 2

\* The keys a, b, c of such a tree
NestedKeys == <<root[1][1].keys[1].key, root[1][2].keys[1].key, root[1][2].keys[2].key>>

\* On And[a, Or[b, c]] a query passes exactly when it holds a and one of b, c;
\* on Or[a, And[b, c]] exactly when it holds a or both b and c; every other
\* query raises a QueryValidationError.
NestedVerdict ==
    /\ (Validated /\ Nested("_AndNode", "_OrNode")) =>
           /\ outcome = "ok" <=> /\ Present(NestedKeys[1])
                                 /\ Present(NestedKeys[2]) \/ Present(NestedKeys[3])
           /\ outcome \in QueryValidationErrors \cup {"ok"}
    /\ (Validated /\ Nested("_OrNode", "_AndNode")) =>
           /\ outcome = "ok" <=> \/ Present(NestedKeys[1])
                                 \/ Present(NestedKeys[2]) /\ Present(NestedKeys[3])
           /\ outcome \in QueryValidationErrors \cup {"ok"}

\* or_(c) on has(a).and_(b) gives And[a, Or[b, c]], and and_(c) on
\* has(a).or_(b) gives Or[a, And[b, c]].
BindsToLastKey ==
    /\ (TwoKeys("_AndNode") /\ current # None /\ op'.name = "or_") =>
           /\ Nested("_AndNode", "_OrNode")'
           /\ NestedKeys' = <<root[1][1].keys[1].key, root[1][1].keys[2].key, op'.arg>>
    /\ (TwoKeys("_OrNode") /\ current # None /\ op'.name = "and_") =>
           /\ Nested("_OrNode", "_AndNode")'
           /\ NestedKeys' = <<root[1][1].keys[1].key, root[1][1].keys[2].key, op'.arg>>

\* C27: and_ and or_ bind to the last key of the open group:
\* has(a).and_(b).or_(c) is the tree And[a, Or[b, c]] and passes exactly the
\* queries with a and one of b, c; has(a).or_(b).and_(c) is the tree
\* Or[a, And[b, c]] and passes exactly the queries with a or both b and c; all
\* other queries raise a QueryValidationError.
C27_BindToLastKey == []NestedVerdict /\ [][BindsToLastKey]_vars

C27_Witness ==
    /\ Validated /\ Nested("_OrNode", "_AndNode")
    /\ Cardinality({NestedKeys[1], NestedKeys[2], NestedKeys[3]}) = 3
    /\ ~Present(NestedKeys[1]) /\ Present(NestedKeys[2]) /\ Present(NestedKeys[3])
    /\ outcome = "ok"

\* The builder call of the step raised QueryValidatorStructureError; a builder
\* call ends in no other way than "ok".
Refused == outcome = "QueryValidatorStructureError"
BuilderCalls == {"has", "can_have", "and_", "or_", "also", "as_", "as_any_of", "with_default"}

\* One call on the validator: has and can_have are refused exactly when a key
\* is selected and also exactly when none is; a key is selected after the call
\* when the call was a has, can_have, and_ or or_ that went through, is not
\* selected when it was an also that went through, and is selected as before
\* after every other call; has and can_have go through right after an also
\* that did.
SelectionStep ==
    /\ op'.name \in BuilderCalls => outcome' \in {"ok", "QueryValidatorStructureError"}
    /\ op'.name \in {"has", "can_have"} => (Refused' <=> current # None)
    /\ op'.name = "also" => (Refused' <=> current = None)
    /\ (current' # None) <=>
           IF op'.name \in {"has", "can_have", "and_", "or_"} /\ ~Refused' THEN TRUE
           ELSE IF op'.name = "also" /\ ~Refused' THEN FALSE
           ELSE current # None
    /\ (op.name = "also" /\ ~Refused /\ op'.name \in {"has", "can_have"}) => ~Refused'

\* C28: no key is selected on a new validator, and from then on a key is
\* selected exactly when a has, can_have, and_ or or_ went through and no also
\* did since; has and can_have raise QueryValidatorStructureError exactly when
\* a key is selected, also exactly when none is, and has and can_have go
\* through after an also that did.
C28_SelectionDiscipline == (op.name = "none" => current = None) /\ [][SelectionStep]_vars

C28_Witness ==
    /\ op.name \in {"has", "can_have"}
    /\ outcome = "ok"
    /\ Len(root) = 2

\* No key is selected, or the selected key has a type constraint already
NoKeyOrTyped == current = None \/ CurrentNode(Self).child # <<>>

\* One call on the validator: as_ and as_any_of are refused exactly when no
\* key is selected or the selected key has a type constraint, with_default
\* also when the selected key is required; when they go through the same key
\* stays selected and has one type constraint, of the types asked for; and_,
\* or_ and also are refused exactly when no key is selected.
ConstraintStep ==
    /\ op'.name \in {"as_", "as_any_of"} => (Refused' <=> NoKeyOrTyped)
    /\ op'.name = "with_default" =>
           (Refused' <=> (NoKeyOrTyped \/ CurrentNode(Self).required))
    /\ (op'.name \in {"as_", "as_any_of", "with_default"} /\ ~Refused') =>
           /\ current' = current
           /\ Len(CurrentNode(Self)'.child) = 1
           /\ op'.name # "with_default" => CurrentNode(Self)'.child[1].types = op'.arg
           /\ op'.name = "with_default" => CurrentNode(Self)'.child[1].types = <<"int">>
    /\ op'.name \in {"and_", "or_", "also"} => (Refused' <=> current = None)

\* C29: as_, as_any_of and with_default raise QueryValidatorStructureError
\* when no key is selected or the selected key has a type constraint already,
\* with_default also when the selected key is required, and otherwise go
\* through and leave the selected key with exactly one type constraint; and_,
\* or_ and also raise it when no key is selected.
C29_ConstraintDiscipline == [][ConstraintStep]_vars

C29_Witness ==
    /\ op.name = "with_default" /\ Refused
    /\ current # None
    /\ CurrentNode(Self).required
    /\ CurrentNode(Self).child = <<>>

\* The keys declaration d declares
DeclaredKeys(d) == {root[x[1]][x[2]].keys[x[3]].key : x \in {y \in KeyPlaces(root) : y[1] = d}}

\* No key is declared in two declarations
DisjointDeclarations ==
    \A d, e \in 1..Len(root) : d # e => DeclaredKeys(d) \cap DeclaredKeys(e) = {}

\* How declaration d on its own ends on the query the validator was called on
Alone(d) == Node_evaluate(root[d], 1, op.arg, <<>>).exc

\* The validator passes the query exactly when each declaration on its own
\* does, and else raises what the first declaration that does not raises.
Independent ==
    /\ outcome = "ok" <=> \A d \in 1..Len(root) : Alone(d) = "none"
    /\ \A d \in 1..Len(root) :
           (Alone(d) # "none" /\ \A e \in 1..(d - 1) : Alone(e) = "none") => outcome = Alone(d)

\* C30 as claimed: the validator passes a query exactly when each of its
\* declarations on its own passes it.
C30_DeclarationsIndependent == (Validated /\ Len(root) >= 2) => Independent

\* C30 amended: when no key is declared in two declarations, the validator
\* passes a query exactly when each of its declarations on its own passes it,
\* and else raises the error of the first declaration that does not.
C30_DisjointDeclarationsIndependent ==
    (Validated /\ Len(root) >= 2 /\ DisjointDeclarations) => Independent

C30_Witness ==
    /\ Validated /\ Len(root) = 2 /\ DisjointDeclarations
    /\ ~root[1][1].keys[1].required /\ ~Present(root[1][1].keys[1].key)
    /\ root[2][1].keys[1].required /\ Present(root[2][1].keys[1].key)
    /\ outcome = "ok"

\* The SinkHandlers put and put_many build for type t, when some destination
\* takes it
PutHandlersOf(t) == put_handlers(type_graph, sinks, t)

\* C31: after a put or put_many for a type that some destination takes, the
\* put-handler cache holds the set of SinkHandlers of the type (so that later
\* calls find it there and build nothing).
C31_PutHandlersCached ==
    (op.name \in {"put", "put_many"} /\ outcome = "ok"
        /\ PutHandlersOf(op.type).exc = "none") =>
            put_types[op.type] = SetSlot(PutHandlersOf(op.type).handlers)

\* A step that is a call of put or put_many
PutStep == op'.name \in {"put", "put_many"}

\* C32: put and put_many leave the get-handler cache as it was (so that a get
\* of the type meets the same cache entry, hence has the same outcome, whether
\* or not a put went before).
C32_PutLeavesGetCache == [][PutStep => get_types' = get_types]_vars

\* The eligible destinations of the origin s: the destinations registered
\* before it
Eligible(s) ==
    UNION {sources[i].targets : i \in {k \in 1..Len(sources) : sources[k].source = s}}

\* The handlers of destination s among the SinkHandlers hs
HandlersOf(hs, s) == {x \in hs : x.sink = s}

\* The conversions the pipeline finds from type t to a type destination s accepts
FromType(t, s) == best_transform_from(type_graph, t, accepts(s).types)

\* The destination s is placed in the SourceHandler h as the cheaper of the
\* conversions b (from the origin's type) and a (from the requested type) says,
\* before the conversion when they cost the same
PlacedCheaper(h, s, b, a) ==
    /\ (b.ok /\ (~a.ok \/ b.cost <= a.cost)) =>
           /\ HandlersOf(h.before_transform, s) = {SinkHandler(s, b.type, b.chain)}
           /\ HandlersOf(h.after_transform, s) = {}
    /\ (a.ok /\ (~b.ok \/ a.cost < b.cost)) =>
           /\ HandlersOf(h.before_transform, s) = {}
           /\ HandlersOf(h.after_transform, s) = {SinkHandler(s, a.type, a.chain)}
    /\ (~a.ok /\ ~b.ok) =>
           /\ HandlersOf(h.before_transform, s) = {}
           /\ HandlersOf(h.after_transform, s) = {}

\* C33: in the handlers built for a get, a SourceHandler whose origin's type
\* differs from the requested one holds, for each eligible destination, the
\* cheaper of the SinkHandler from the origin's type (before the conversion) and
\* the one from the requested type (after it), the one before when they cost
\* the same, and none when the destination is reached from neither.
C33_CheaperPlacementTiesBefore ==
    (op.name = "_get_handlers" /\ outcome = "ok") =>
        \A k \in 1..Len(result[1]) :
            result[1][k].source_type # op.type =>
                \A s \in Eligible(result[1][k].source) :
                    PlacedCheaper(result[1][k], s,
                                  FromType(result[1][k].source_type, s),
                                  FromType(op.type, s))

\* The destination s declares that it accepts type t
Declares(s, t) == ~accepts(s).wild /\ t \in accepts(s).types

\* The one handler of destination s in the SourceHandler h is a direct one: it
\* stores a type s accepts as it is offered, before the conversion the origin's
\* type and after it the requested type t, with the identity conversion.
DirectIn(h, s, t) ==
    /\ Cardinality(HandlersOf(h.before_transform \cup h.after_transform, s)) = 1
    /\ \A x \in HandlersOf(h.before_transform, s) :
           x = SinkHandler(s, h.source_type, identity) /\ Declares(s, h.source_type)
    /\ \A x \in HandlersOf(h.after_transform, s) :
           x = SinkHandler(s, t, identity) /\ Declares(s, t)

\* C34: in the handlers built for a put, a destination that accepts the type
\* has one handler, storing the type with the identity conversion (the empty
\* chain, of cost 0); in the handlers built for a get, an eligible destination
\* that accepts the origin's type or the requested type has one handler,
\* storing the accepted type it is offered with the identity conversion.
C34_DirectMatchIdentity ==
    /\ (op.name = "_put_handlers" /\ outcome = "ok") =>
           \A s \in sinks :
               Declares(s, op.type) =>
                   /\ HandlersOf(result[1], s) = {SinkHandler(s, op.type, identity)}
                   /\ ChainCost(identity) = 0
    /\ (op.name = "_get_handlers" /\ outcome = "ok") =>
           \A k \in 1..Len(result[1]) :
               \A s \in Eligible(result[1][k].source) :
                   (Declares(s, result[1][k].source_type) \/ Declares(s, op.type)) =>
                       DirectIn(result[1][k], s, op.type)

\* C34 witness: handlers built for a get hold an origin whose type is converted
\* to the requested one, with an eligible destination that accepts the
\* requested type and is also reached from the origin's type by a chain.
C34_Witness ==
    /\ op.name = "_get_handlers" /\ outcome = "ok"
    /\ \E k \in 1..Len(result[1]) :
           /\ result[1][k].source_type # op.type
           /\ \E s \in Eligible(result[1][k].source) :
                  /\ Declares(s, op.type)
                  /\ FromType(result[1][k].source_type, s).ok
                  /\ SinkHandler(s, op.type, identity) \in result[1][k].after_transform

\* The number of handlers the SourceHandler h holds for destination s, on
\* either side of the conversion
HandlerCount(h, s) ==
    Cardinality(HandlersOf(h.before_transform, s))
        + Cardinality(HandlersOf(h.after_transform, s))

\* The calls of put on destination s in the record of calls tr
PutsTo(tr, s) == {i \in 1..Len(tr) : tr[i].ev = "put" /\ tr[i].who = s}

WrittenTo(tr, s) == \E i \in 1..Len(tr) : tr[i].ev \in {"put", "put_many"} /\ tr[i].who = s

\* The record of calls tr holds a call of origin s answered with res
Answered(tr, s, res) ==
    \E i \in 1..Len(tr) : tr[i].ev \in {"get", "get_many"} /\ tr[i].who = s /\ tr[i].res = res

\* C36: no origin is among its own eligible destinations, while every element
\* that is an origin and a destination is an eligible destination of the
\* origins registered after it; a get or get_many (and the generator it
\* returned) never writes to the origin that answered it.
C36_NoWriteBack ==
    /\ \A i \in 1..Len(sources) :
           /\ sources[i].source \notin sources[i].targets
           /\ \A j \in 1..(i - 1) :
                  isDataSink(sources[j].source) => sources[j].source \in sources[i].targets
    /\ op.name \in {"get", "get_many"} =>
           \A s \in ElementNames : Answered(trace, s, "ok") => ~WrittenTo(trace, s)

\* C36 witness: an element that is an origin and a destination did not have
\* the value, an origin registered after it answered, and the value was
\* written to the element.
C36_Witness ==
    /\ op.name \in {"get", "get_many"} /\ outcome = "ok"
    /\ \E s \in ElementNames :
           /\ isDataSource(s) /\ isDataSink(s)
           /\ Answered(trace, s, "NotFoundError")
           /\ WrittenTo(trace, s)
           /\ \E o \in ElementNames \ {s} : Answered(trace, o, "ok")

\* C37: on every edge of the type graph the cost attribute, which the
\* shortest-path search weighs, is the cost of the converter stored on the edge.
C37_EdgeWeightIsConverterCost ==
    \A p \in DOMAIN type_graph.edges :
        type_graph.edges[p].cost = cost(type_graph.edges[p].transformer)

\* Every default of the validator is a literal (none is a supplier function)
LiteralDefaults ==
    \A x \in KeyPlaces(root) :
        \/ root[x[1]][x[2]].keys[x[3]].child = <<>>
        \/ root[x[1]][x[2]].keys[x[3]].child[1].child = <<>>
        \/ root[x[1]][x[2]].keys[x[3]].child[1].child[1].supplies_type = ""

\* The validator accepts the query q and leaves it as it is
AcceptsUnchanged(r, q) == r.exc = "none" /\ r.query = q

\* C38: when a validator whose defaults are literals has accepted a query, it
\* accepts the query as the call left it, and leaves it unchanged.
C38_ValidationIdempotent ==
    (Validated /\ outcome = "ok" /\ LiteralDefaults) =>
        AcceptsUnchanged(QueryValidator_call(root, heap[1]), heap[1])

\* The origins of the pipeline
Origins == {sources[i].source : i \in 1..Len(sources)}

\* C39: the sources attribute of each type node is the set of the non-wildcard
\* origins that provide the type, and its sinks attribute the set of the
\* non-wildcard destinations that accept it.
C39_AnnotationsComplete ==
    \A t \in type_graph.nodes :
        /\ annotations[t].sources =
               {s \in Origins : ~provides(s).wild /\ t \in provides(s).types}
        /\ annotations[t].sinks =
               {s \in sinks : ~accepts(s).wild /\ t \in accepts(s).types}

\* Child j of level i of declaration d is an optional key, or a group all of
\* whose children are, in this sense, falsifiable
RECURSIVE EntirelyFalsifiable(_, _, _)
EntirelyFalsifiable(d, i, j) ==
    IF j <= Len(d[i].keys) THEN ~d[i].keys[j].required
    ELSE \A k \in 1..NumChildren(d, i + 1) : EntirelyFalsifiable(d, i + 1, k)

\* C40: every child of every group of the validator (a key, or the group
\* nested in it) is falsifiable exactly when it is an optional key or a group
\* all of whose children are falsifiable.
C40_FalsifiableExactly ==
    \A d \in 1..Len(root) :
        \A i \in 1..Len(root[d]) :
            root[d][i].node # "_KeyNode" =>
                \A j \in 1..NumChildren(root[d], i) :
                    falsifiable(root[d], i, j) <=> EntirelyFalsifiable(root[d], i, j)

====
